---- MODULE Spec2Model ----
(***************************************************************************)
(* KoInsight server: the annotation table, AnnotationsRepository and       *)
(* UploadService.uploadStatisticData, as a state machine over the tables   *)
(* of the database.                                                        *)
(***************************************************************************)
EXTENDS Integers, Sequences, FiniteSets, TLC

(* ----------------------------- bounds --------------------------------- *)
\* number of syncs (uploadStatisticData calls with a fresh payload) in a run
MaxSyncs == 2
\* number of direct repository calls in a run
MaxRepoOps == 1

\* largest stored pageno and total_pages, and largest current total of a
\* book, an annotation card is shown with
MaxPageno == 10
MaxTotalPages == 10
MaxCurrentTotal == 45

\* /import requests that may be in flight together
MaxConcurrent == 3

\* largest number of seconds stored or typed as the connect timeout
MaxSeconds == 62

\* books with annotations in the reading history
MaxCollected == 3

\* annotations read from one sidecar file
MaxRead == 2

\* page stats in one request
MaxStats == 2

\* longest batch whose orders are compared
MaxBatchLen == 3

(* ------------------------- values and inputs --------------------------- *)
\* SQL NULL / JavaScript undefined of a string-valued field
NullStr == "<null>"
\* SQL NULL / JavaScript undefined of a number-valued field
NullNum == -1
\* deleted_at IS NULL (the clock starts at 1)
NullTime == 0
\* an absent pos0 / pos1
NoPos == <<>>

UNKNOWN_DEVICE_ID == "manual-upload"

Books == {"b1", "b2"}
Devices == {"d1"}
AllDevices == Devices \cup {UNKNOWN_DEVICE_ID}

\* KoReaderAnnotation.page: a number (PDF) or a string (EPUB xPointer)
NumPage(n) == [kind |-> "number", num |-> n, str |-> ""]
StrPage(s) == [kind |-> "string", num |-> 0, str |-> s]

\* JavaScript String(v) and `${v}` of a page value
String(p) == IF p.kind = "number" THEN ToString(p.num) ELSE p.str

\* JavaScript truthiness of an optional string field
Truthy(s) == s # NullStr /\ s # ""

\* JSON.stringify of an AnnotationPosition {x, y, page}
JSONstringify(p) ==
  "{x:" \o ToString(p[1]) \o ",y:" \o ToString(p[2]) \o ",page:" \o ToString(p[3]) \o "}"

\* The (page, datetime) pairs a device sends. The second and third have the
\* same `${page}|${datetime}` concatenation.
IdInputs ==
  { <<NumPage(10), "t">>, <<NumPage(10), "a|t">>, <<StrPage("10|a"), "t">> }

\* The content a device sends with an annotation: a highlight, and a
\* revision of it that carries a note and another pagination.
Contents ==
  { [text |-> "x1", note |-> NullStr, drawer |-> "lighten", color |-> "yellow",
     chapter |-> "c1", pageno |-> 1, total_pages |-> 10,
     datetime_updated |-> NullStr, pos0 |-> <<1, 2, 10>>, pos1 |-> <<3, 4, 10>>],
    [text |-> "x2", note |-> "n2", drawer |-> "lighten", color |-> "yellow",
     chapter |-> "c2", pageno |-> 2, total_pages |-> 20,
     datetime_updated |-> "u2", pos0 |-> <<1, 2, 10>>, pos1 |-> <<3, 4, 10>>] }

\* KoReaderAnnotation
KoReaderAnnotation(i, c) ==
  [page |-> i[1], datetime |-> i[2], datetime_updated |-> c.datetime_updated,
   drawer |-> c.drawer, color |-> c.color, text |-> c.text, note |-> c.note,
   chapter |-> c.chapter, pageno |-> c.pageno, total_pages |-> c.total_pages,
   pos0 |-> c.pos0, pos1 |-> c.pos1]

(* ------------------------------ state ---------------------------------- *)
\* the server alone: no reading device takes part
NoDevice == [kind |-> "none"]

VARIABLES
  db,        \* the committed tables
  now,       \* the clock read by db.fn.now() and the column defaults
  last,      \* the call that was made last, with its arguments and outcome
  nsync,     \* uploadStatisticData calls made with a fresh payload
  nrepo,     \* direct repository calls made
  trxs,      \* the /import requests received: waiting, in a transaction or finished
  dev        \* the reading device: its settings, its WiFi and what the plugin did

vars == <<db, now, last, nsync, nrepo, trxs, dev>>

EmptyTables ==
  [book |-> {}, device |-> {}, book_device |-> {}, page_stat |-> {},
   annotation |-> {}, nextId |-> 1]

(* ------------------------- annotation table ---------------------------- *)
\* variant: the note rule tried before the bookmark rule
AnnotationType_NoteFirst(ka) ==
  IF Truthy(ka.note) /\ Truthy(ka.text)
    THEN "note"
  ELSE IF ~Truthy(ka.drawer) /\ ~Truthy(ka.color) /\ ka.pos0 = NoPos /\ ka.pos1 = NoPos
    THEN "bookmark"
  ELSE "highlight"

\* convertFromKoReader: let type; if ... else if ... else
AnnotationType(ka) ==
  IF ~Truthy(ka.drawer) /\ ~Truthy(ka.color) /\ ka.pos0 = NoPos /\ ka.pos1 = NoPos
    THEN "bookmark"
  ELSE IF Truthy(ka.note) /\ Truthy(ka.text)
    THEN "note"
  ELSE "highlight"

\* AnnotationsRepository.convertFromKoReader: the row handed to insert().
\* total_pages is not among the fields it returns.
convertFromKoReader(bookMd5, deviceId, ka) ==
  [book_md5 |-> bookMd5, device_id |-> deviceId,
   annotation_type |-> AnnotationType(ka),
   text |-> ka.text, note |-> ka.note, drawer |-> ka.drawer, color |-> ka.color,
   chapter |-> ka.chapter, pageno |-> ka.pageno,
   page_ref |-> String(ka.page),
   pos0 |-> IF ka.pos0 # NoPos THEN JSONstringify(ka.pos0) ELSE NullStr,
   pos1 |-> IF ka.pos1 # NoPos THEN JSONstringify(ka.pos1) ELSE NullStr,
   datetime |-> ka.datetime, datetime_updated |-> ka.datetime_updated]

\* The row as the table stores it: columns the insert does not name take
\* their defaults (total_pages NULL, deleted_at NULL, updated_at now).
NewRow(a, id, time) ==
  [id |-> id, book_md5 |-> a.book_md5, device_id |-> a.device_id,
   annotation_type |-> a.annotation_type, text |-> a.text, note |-> a.note,
   drawer |-> a.drawer, color |-> a.color, chapter |-> a.chapter,
   pageno |-> a.pageno, page_ref |-> a.page_ref, total_pages |-> NullNum,
   pos0 |-> a.pos0, pos1 |-> a.pos1, datetime |-> a.datetime,
   datetime_updated |-> a.datetime_updated,
   updated_at |-> time, deleted_at |-> NullTime]

\* variant: a unique index that also covers the text column
UniqueColumns_WithText == {"book_md5", "device_id", "page_ref", "datetime", "text"}

\* variant: a unique index without the device_id column
UniqueColumns_NoDevice == {"book_md5", "page_ref", "datetime"}

\* variant: a unique index without the datetime column
UniqueColumns_NoDatetime == {"book_md5", "device_id", "page_ref"}

\* table.unique([...]) of the annotation table, the target of onConflict
UniqueColumns == {"book_md5", "device_id", "page_ref", "datetime"}

\* variant: a merge list that leaves the note as it was stored
MergeColumns_NoNote == {"text", "datetime_updated", "pageno", "chapter", "updated_at"}

\* variant: a merge list that also overwrites deleted_at
MergeColumns_WithDeletedAt ==
  {"text", "note", "datetime_updated", "pageno", "chapter", "updated_at", "deleted_at"}

\* .merge([...]) of bulkInsert
MergeColumns == {"text", "note", "datetime_updated", "pageno", "chapter", "updated_at"}

SameKey(r, a) == \A c \in UniqueColumns : r[c] = a[c]

\* foreign keys of the annotation table
ForeignKeysHold(t, a) ==
  /\ a.book_md5 \in {b.md5 : b \in t.book}
  /\ a.device_id \in t.device

\* the columns of the annotation table that are notNullable()
NotNullColumns == {"book_md5", "device_id", "annotation_type", "datetime"}

\* the row satisfies the NOT NULL constraints
NotNullsHold(a) == \A c \in NotNullColumns : a[c] # NullStr

\* variant: a plain insert(annotation), which throws on an existing identity
InsertOnConflictMerge_NoOnConflict(t, a, time) ==
  LET fresh == NewRow(a, t.nextId, time)
      hit == {r \in t.annotation : SameKey(r, fresh)}
  IN IF ~ForeignKeysHold(t, a) \/ ~NotNullsHold(a) \/ hit # {}
       THEN [ok |-> FALSE, t |-> t]
     ELSE [ok |-> TRUE,
           t |-> [t EXCEPT !.annotation = @ \cup {fresh}, !.nextId = @ + 1]]

\* variant: onConflict(UniqueColumns).ignore(), which keeps the stored row
InsertOnConflictMerge_Ignore(t, a, time) ==
  LET fresh == NewRow(a, t.nextId, time)
      hit == {r \in t.annotation : SameKey(r, fresh)}
  IN IF ~ForeignKeysHold(t, a) \/ ~NotNullsHold(a)
       THEN [ok |-> FALSE, t |-> t]
     ELSE IF hit = {}
       THEN [ok |-> TRUE,
             t |-> [t EXCEPT !.annotation = @ \cup {fresh}, !.nextId = @ + 1]]
     ELSE [ok |-> TRUE, t |-> t]

\* insert(annotation).onConflict(UniqueColumns).merge(MergeColumns) on tables t.
\* Result: [ok, t]; ok is FALSE when the statement throws.
InsertOnConflictMerge(t, a, time) ==
  LET fresh == NewRow(a, t.nextId, time)
      hit == {r \in t.annotation : SameKey(r, fresh)}
      merged(r) == [c \in DOMAIN r |-> IF c \in MergeColumns THEN fresh[c] ELSE r[c]]
  IN IF ~ForeignKeysHold(t, a) \/ ~NotNullsHold(a)
       THEN [ok |-> FALSE, t |-> t]
     ELSE IF hit = {}
       THEN [ok |-> TRUE,
             t |-> [t EXCEPT !.annotation = @ \cup {fresh}, !.nextId = @ + 1]]
     ELSE [ok |-> TRUE,
           t |-> [t EXCEPT !.annotation = (@ \ hit) \cup {merged(r) : r \in hit}]]

\* the for loop of insertAnnotations over the converted batch
RECURSIVE insertAnnotations(_, _, _)
insertAnnotations(t, annotations, time) ==
  IF annotations = <<>>
    THEN [ok |-> TRUE, t |-> t]
  ELSE LET r == InsertOnConflictMerge(t, Head(annotations), time)
       IN IF r.ok THEN insertAnnotations(r.t, Tail(annotations), time) ELSE r

\* variant: no guard for the empty batch and one insert(annotations) of the
\* whole array, which the query builder refuses when the array is empty
bulkInsert_NoEmptyGuard(t, bookMd5, deviceId, koreaderAnnotations, time) ==
  IF Len(koreaderAnnotations) = 0
    THEN [ok |-> FALSE, t |-> t]
  ELSE insertAnnotations(
         t,
         [i \in 1..Len(koreaderAnnotations) |->
            convertFromKoReader(bookMd5, deviceId, koreaderAnnotations[i])],
         time)

\* AnnotationsRepository.bulkInsert on tables t (the transaction it runs in).
bulkInsert(t, bookMd5, deviceId, koreaderAnnotations, time) ==
  IF Len(koreaderAnnotations) = 0
    THEN [ok |-> TRUE, t |-> t]
  ELSE insertAnnotations(
         t,
         [i \in 1..Len(koreaderAnnotations) |->
            convertFromKoReader(bookMd5, deviceId, koreaderAnnotations[i])],
         time)

\* AnnotationsRepository.markAsDeleted
markAsDeleted(t, id, time) ==
  [t EXCEPT !.annotation =
     {IF r.id = id THEN [r EXCEPT !.deleted_at = time] ELSE r : r \in @}]

\* variant: markManyAsDeleted without whereNull('deleted_at')
markManyAsDeleted_NoWhereNull(t, bookMd5, deviceId, identifiers, time) ==
  IF identifiers = {}
    THEN t
  ELSE [t EXCEPT !.annotation =
     {IF /\ r.book_md5 = bookMd5 /\ r.device_id = deviceId
         /\ \E i \in identifiers : r.page_ref = i.page_ref /\ r.datetime = i.datetime
        THEN [r EXCEPT !.deleted_at = time]
        ELSE r : r \in @}]

\* variant: markManyAsDeleted without the device_id in its where
markManyAsDeleted_NoDevice(t, bookMd5, deviceId, identifiers, time) ==
  IF identifiers = {}
    THEN t
  ELSE [t EXCEPT !.annotation =
     {IF /\ r.book_md5 = bookMd5
         /\ r.deleted_at = NullTime
         /\ \E i \in identifiers : r.page_ref = i.page_ref /\ r.datetime = i.datetime
        THEN [r EXCEPT !.deleted_at = time]
        ELSE r : r \in @}]

\* variant: the named annotations are removed instead of marked
markManyAsDeleted_Delete(t, bookMd5, deviceId, identifiers, time) ==
  IF identifiers = {}
    THEN t
  ELSE [t EXCEPT !.annotation =
     {r \in @ :
        ~(/\ r.book_md5 = bookMd5 /\ r.device_id = deviceId
          /\ r.deleted_at = NullTime
          /\ \E i \in identifiers : r.page_ref = i.page_ref /\ r.datetime = i.datetime)}]

\* AnnotationsRepository.markManyAsDeleted; identifiers is a set of
\* [page_ref, datetime] records
markManyAsDeleted(t, bookMd5, deviceId, identifiers, time) ==
  IF identifiers = {}
    THEN t
  ELSE [t EXCEPT !.annotation =
     {IF /\ r.book_md5 = bookMd5 /\ r.device_id = deviceId
         /\ r.deleted_at = NullTime
         /\ \E i \in identifiers : r.page_ref = i.page_ref /\ r.datetime = i.datetime
        THEN [r EXCEPT !.deleted_at = time]
        ELSE r : r \in @}]

\* the number markManyAsDeleted returns: the rows its update has changed
markManyAsDeletedCount(t, bookMd5, deviceId, identifiers) ==
  IF identifiers = {}
    THEN 0
  ELSE Cardinality(
         {r \in t.annotation :
            /\ r.book_md5 = bookMd5 /\ r.device_id = deviceId
            /\ r.deleted_at = NullTime
            /\ \E i \in identifiers : r.page_ref = i.page_ref /\ r.datetime = i.datetime})

\* variant: restore without where({ id })
restore_NoWhere(t, id) ==
  [t EXCEPT !.annotation = {[r EXCEPT !.deleted_at = NullTime] : r \in @}]

\* the number restore returns: the rows its update has changed
restoreCount(t, id) == Cardinality({r \in t.annotation : r.id = id})

\* AnnotationsRepository.restore
restore(t, id) ==
  [t EXCEPT !.annotation =
     {IF r.id = id THEN [r EXCEPT !.deleted_at = NullTime] ELSE r : r \in @}]

\* AnnotationsRepository.delete
delete(t, id) == [t EXCEPT !.annotation = {r \in @ : r.id # id}]

\* AnnotationsRepository.deleteByBookMd5
deleteByBookMd5(t, md5) == [t EXCEPT !.annotation = {r \in @ : r.book_md5 # md5}]

\* AnnotationsRepository.getCountsByType: the rows of the book that are not
\* soft-deleted, counted per annotation_type
getCountsByType(t, md5) ==
  [ty \in {"highlight", "note", "bookmark"} |->
     Cardinality({r \in t.annotation :
                    r.book_md5 = md5 /\ r.deleted_at = NullTime /\ r.annotation_type = ty})]

\* variant: getDeletedCount without whereNotNull('deleted_at')
getDeletedCount_NoWhereNotNull(t, md5) ==
  Cardinality({r \in t.annotation : r.book_md5 = md5})

\* AnnotationsRepository.getDeletedCount
getDeletedCount(t, md5) ==
  Cardinality({r \in t.annotation : r.book_md5 = md5 /\ r.deleted_at # NullTime})

\* the positions a stored pos0 / pos1 string can stand for
Positions == {c.pos0 : c \in Contents} \cup {c.pos1 : c \in Contents}

\* JSON.parse of a stored position
JSONparse(str) == CHOOSE p \in Positions : JSONstringify(p) = str

\* what getByBookMd5 makes of a selected row: the positions parsed, and the
\* deleted flag added
AnnotationOf(r) ==
  [c \in DOMAIN r \cup {"deleted"} |->
     IF c = "deleted" THEN r.deleted_at # NullTime
     ELSE IF c \in {"pos0", "pos1"} THEN (IF Truthy(r[c]) THEN JSONparse(r[c]) ELSE NoPos)
     ELSE r[c]]

\* variant: getByBookMd5 without whereNull('deleted_at')
getByBookMd5_NoWhereNull(t, md5, deviceId, includeDeleted) ==
  {AnnotationOf(r) :
     r \in {x \in t.annotation :
              /\ x.book_md5 = md5
              /\ Truthy(deviceId) => x.device_id = deviceId}}

\* AnnotationsRepository.getByBookMd5; deviceId is NullStr when it is not
\* given. The result is taken as a set: orderBy('datetime', 'desc') is left out.
getByBookMd5(t, md5, deviceId, includeDeleted) ==
  {AnnotationOf(r) :
     r \in {x \in t.annotation :
              /\ x.book_md5 = md5
              /\ Truthy(deviceId) => x.device_id = deviceId
              /\ ~includeDeleted => x.deleted_at = NullTime}}

(* --------------------------- uploadStatisticData ----------------------- *)
\* KoReaderBook as the plugin sends it
KoReaderBook(md5) ==
  [md5 |-> md5, title |-> "title-" \o md5, authors |-> "a", series |-> "s",
   language |-> "en", last_open |-> 1, pages |-> 10, notes |-> 0, highlights |-> 0,
   total_read_time |-> NullNum, total_read_pages |-> NullNum]

\* PageStat as the plugin sends it
PageStat(deviceId, md5) ==
  [book_md5 |-> md5, device_id |-> deviceId, page |-> 1, start_time |-> 1,
   duration |-> 1, total_pages |-> 10]

\* the order in which the books of a sync are processed
BookOrder == <<"b1", "b2">>

\* variant: bulkInsert called without the transaction, so on the global db
bulkInsertExecutor_Db == "db"

\* the executor bulkInsert is handed by uploadStatisticData
bulkInsertExecutor == "trx"

\* A connection: the committed tables, the tables as the open transaction
\* sees them, whether a statement has thrown, and the passes that ran.
Conn(t) == [ok |-> TRUE, db |-> t, trx |-> t, ran |-> {}]

\* A statement run through the transaction object, or through the global
\* `db`: a connection of its own, whose writes are committed whatever
\* happens to the transaction afterwards. onTrx and onDb are the statement's
\* results [ok, t] on the transaction's tables and on the committed tables.
Run(conn, executor, onTrx, onDb) ==
  IF executor = "trx"
    THEN [conn EXCEPT !.ok = onTrx.ok, !.trx = IF onTrx.ok THEN onTrx.t ELSE @]
  ELSE [conn EXCEPT !.ok = onDb.ok,
                    !.db = IF onDb.ok THEN onDb.t ELSE @,
                    !.trx = IF onDb.ok /\ onTrx.ok THEN onTrx.t ELSE @]

\* a statement on the transaction object that cannot be refused
OnTrx(conn, t) == [conn EXCEPT !.trx = t]

\* newBooks: the md5, title, authors, series and language of a KoReaderBook
NewBook(k) ==
  [md5 |-> k.md5, title |-> k.title, authors |-> k.authors, series |-> k.series,
   language |-> k.language]

\* variant: onConflict('md5').merge(), which overwrites the stored book
InsertBooks_Merge(t, books) ==
  [t EXCEPT !.book =
     {y \in @ : y.md5 \notin {k.md5 : k \in books}} \cup {NewBook(k) : k \in books}]

\* trx('book').insert(book).onConflict('md5').ignore() for every book;
\* books is a set of KoReaderBook
InsertBooks(t, books) ==
  [t EXCEPT !.book = @ \cup
     {NewBook(k) : k \in {x \in books : x.md5 \notin {y.md5 : y \in t.book}}}]

hasUnknownDevices(newPageStats) ==
  Len(newPageStats) > 0 /\ newPageStats[1].device_id = UNKNOWN_DEVICE_ID

\* the unknown device is created when the statistics come from a manual upload
EnsureUnknownDevice(t, newPageStats) ==
  IF hasUnknownDevices(newPageStats)
    THEN [t EXCEPT !.device = @ \cup {UNKNOWN_DEVICE_ID}]
  ELSE t

\* total_read_pages ?? 0
OrZero(n) == IF n = NullNum THEN 0 ELSE n

\* variant: the reading statistics merged whatever their value
UpsertBookDevice_MergeAll(t, bd) ==
  LET hit == {r \in t.book_device : r.book_md5 = bd.book_md5 /\ r.device_id = bd.device_id}
      fieldsToMerge ==
        {"last_open", "pages", "notes", "highlights", "total_read_time", "total_read_pages"}
      merged(r) == [c \in DOMAIN r |-> IF c \in fieldsToMerge THEN bd[c] ELSE r[c]]
  IN IF hit = {}
       THEN [t EXCEPT !.book_device = @ \cup {bd}]
     ELSE [t EXCEPT !.book_device = (@ \ hit) \cup {merged(r) : r \in hit}]

\* insert(bookDevice).onConflict(['book_md5', 'device_id']).merge(fieldsToMerge)
UpsertBookDevice(t, bd) ==
  LET hit == {r \in t.book_device : r.book_md5 = bd.book_md5 /\ r.device_id = bd.device_id}
      fieldsToMerge ==
        {"last_open", "pages", "notes", "highlights"}
          \cup (IF bd.total_read_time > 0 THEN {"total_read_time"} ELSE {})
          \cup (IF bd.total_read_pages > 0 THEN {"total_read_pages"} ELSE {})
      merged(r) == [c \in DOMAIN r |-> IF c \in fieldsToMerge THEN bd[c] ELSE r[c]]
  IN IF hit = {}
       THEN [t EXCEPT !.book_device = @ \cup {bd}]
     ELSE [t EXCEPT !.book_device = (@ \ hit) \cup {merged(r) : r \in hit}]

\* booksToImport: the books of the request; the counters and reading
\* statistics of a book are the ones the request carries for it, if any
\* and so are its title, authors, series and language
BooksToImport(p) ==
  {LET k == IF "reading" \in DOMAIN p
              THEN [KoReaderBook(b) EXCEPT !.last_open = p.reading.last_open,
                                           !.pages = p.reading.pages,
                                           !.notes = p.reading.notes,
                                           !.highlights = p.reading.highlights,
                                           !.total_read_time = p.reading.total_read_time,
                                           !.total_read_pages = p.reading.total_read_pages]
            ELSE KoReaderBook(b)
   IN IF "meta" \in DOMAIN p
        THEN [k EXCEPT !.title = p.meta.title, !.authors = p.meta.authors,
                       !.series = p.meta.series, !.language = p.meta.language]
      ELSE k : b \in p.books}

\* books is a set of KoReaderBook
RECURSIVE UpsertBookDevices(_, _, _)
UpsertBookDevices(t, books, deviceId) ==
  IF books = {}
    THEN t
  ELSE LET k == CHOOSE x \in books : TRUE
       IN UpsertBookDevices(
            UpsertBookDevice(t,
              [device_id |-> deviceId, book_md5 |-> k.md5, last_open |-> k.last_open,
               pages |-> k.pages, notes |-> k.notes, highlights |-> k.highlights,
               total_read_pages |-> OrZero(k.total_read_pages),
               total_read_time |-> OrZero(k.total_read_time)]),
            books \ {k}, deviceId)

\* variant: merge(['duration']), which leaves the stored total_pages
UpsertPageStat_MergeDuration(t, ps) ==
  LET hit == {r \in t.page_stat :
                /\ r.device_id = ps.device_id /\ r.book_md5 = ps.book_md5
                /\ r.page = ps.page /\ r.start_time = ps.start_time}
  IN IF hit = {}
       THEN [t EXCEPT !.page_stat = @ \cup {ps}]
     ELSE [t EXCEPT !.page_stat =
             (@ \ hit) \cup {[r EXCEPT !.duration = ps.duration] : r \in hit}]

\* insert(pageStat).onConflict([...]).merge(['duration', 'total_pages'])
UpsertPageStat(t, ps) ==
  LET hit == {r \in t.page_stat :
                /\ r.device_id = ps.device_id /\ r.book_md5 = ps.book_md5
                /\ r.page = ps.page /\ r.start_time = ps.start_time}
  IN IF hit = {}
       THEN [t EXCEPT !.page_stat = @ \cup {ps}]
     ELSE [t EXCEPT !.page_stat =
             (@ \ hit) \cup {[r EXCEPT !.duration = ps.duration,
                                        !.total_pages = ps.total_pages] : r \in hit}]

RECURSIVE UpsertPageStats(_, _)
UpsertPageStats(t, newPageStats) ==
  IF newPageStats = <<>>
    THEN t
  ELSE UpsertPageStats(UpsertPageStat(t, Head(newPageStats)), Tail(newPageStats))

\* `${a.page}|${a.datetime}` of a synced annotation
SyncedIdentifier(a) == String(a.page) \o "|" \o a.datetime

\* `${a.page_ref}|${a.datetime}` of a stored annotation
StoredIdentifier(r) == r.page_ref \o "|" \o r.datetime

\* UploadService.detectAndMarkDeletedAnnotations
detectAndMarkDeletedAnnotations(t, bookMd5, deviceId, syncedAnnotations, time) ==
  LET existingAnnotations ==
        {r \in t.annotation :
           r.book_md5 = bookMd5 /\ r.device_id = deviceId /\ r.deleted_at = NullTime}
      syncedIdentifiers ==
        {SyncedIdentifier(syncedAnnotations[i]) : i \in 1..Len(syncedAnnotations)}
      deletedAnnotations ==
        {[page_ref |-> r.page_ref, datetime |-> r.datetime] :
           r \in {x \in existingAnnotations : StoredIdentifier(x) \notin syncedIdentifiers}}
  IN IF deletedAnnotations # {}
       THEN markManyAsDeleted(t, bookMd5, deviceId, deletedAnnotations, time)
     ELSE t

\* the device the annotations of a sync are attributed to
SyncDeviceId(newPageStats) ==
  IF Len(newPageStats) > 0 THEN newPageStats[1].device_id ELSE UNKNOWN_DEVICE_ID

\* annotationsByBook[bookMd5] || []
BatchOrEmpty(annotationsByBook, bookMd5) ==
  IF bookMd5 \in DOMAIN annotationsByBook THEN annotationsByBook[bookMd5] ELSE <<>>

\* the books detectAndMarkDeletedAnnotations runs for
DetectionBooks(p) == p.books

\* One numbered step of the sync: nothing once a statement has thrown, a
\* storage failure when the step is the one that fails, else the statement.
\* booksToImport.map throws when the request had no books, and
\* newPageStats.length when it had no stats.
StepBooks(c, p, failAt) ==
  IF ~c.ok THEN c
  ELSE IF failAt = 1 \/ "books" \notin DOMAIN p THEN [c EXCEPT !.ok = FALSE]
  ELSE OnTrx(c, InsertBooks(c.trx, BooksToImport(p)))

StepUnknownDevice(c, p, failAt) ==
  IF ~c.ok THEN c
  ELSE IF failAt = 2 \/ "stats" \notin DOMAIN p THEN [c EXCEPT !.ok = FALSE]
  ELSE OnTrx(c, EnsureUnknownDevice(c.trx, p.stats))

\* newPageStats[0].device_id throws for a book when newPageStats is empty
StepBookDevices(c, p, failAt) ==
  IF ~c.ok THEN c
  ELSE IF failAt = 3 \/ (p.books # {} /\ Len(p.stats) = 0) THEN [c EXCEPT !.ok = FALSE]
  ELSE OnTrx(c, IF p.books = {} THEN c.trx
                 ELSE UpsertBookDevices(c.trx, BooksToImport(p), p.stats[1].device_id))

StepPageStats(c, p, failAt) ==
  IF ~c.ok THEN c
  ELSE IF failAt = 4 THEN [c EXCEPT !.ok = FALSE]
  ELSE OnTrx(c, UpsertPageStats(c.trx, p.stats))

\* bulkInsert of the i-th book, when annotationsByBook has an entry for it
StepBulkInsert(c, p, i, time, failAt) ==
  LET b == BookOrder[i]
  IN IF ~c.ok \/ ~p.hasAnn \/ b \notin DOMAIN p.ann THEN c
     ELSE IF failAt = 4 + i THEN [c EXCEPT !.ok = FALSE]
     ELSE [Run(c, bulkInsertExecutor,
               bulkInsert(c.trx, b, SyncDeviceId(p.stats), p.ann[b], time),
               bulkInsert(c.db, b, SyncDeviceId(p.stats), p.ann[b], time))
             EXCEPT !.ran = @ \cup {<<b, "upsert">>}]

\* detectAndMarkDeletedAnnotations of the i-th book, when it is to run for it
StepDetect(c, p, i, time, failAt) ==
  LET b == BookOrder[i]
  IN IF ~c.ok \/ ~p.hasAnn \/ b \notin DetectionBooks(p) THEN c
     ELSE IF failAt = 4 + Len(BookOrder) + i THEN [c EXCEPT !.ok = FALSE]
     ELSE [OnTrx(c, detectAndMarkDeletedAnnotations(
                        c.trx, b, SyncDeviceId(p.stats), BatchOrEmpty(p.ann, b), time))
             EXCEPT !.ran = @ \cup {<<b, "detect">>}]

\* trx.commit(): the transaction's view becomes the committed tables; after
\* a throw the transaction is rolled back and the committed tables stay.
\* dirty: the transaction had made changes when it was rolled back.
StepCommit(c, failAt) ==
  IF c.ok /\ failAt # 5 + 2 * Len(BookOrder)
    THEN [ok |-> TRUE, db |-> c.trx, ran |-> c.ran, dirty |-> FALSE]
  ELSE [ok |-> FALSE, db |-> c.db, ran |-> c.ran, dirty |-> c.trx # c.db]

\* the steps a storage failure can be injected at; 0 is no failure
FailPoints == 0..(5 + 2 * Len(BookOrder))

\* UploadService.uploadStatisticData(p.books, p.stats, p.ann) on tables t
uploadStatisticData(t, p, time, failAt) ==
  LET c1 == StepBooks(Conn(t), p, failAt)
      c2 == StepUnknownDevice(c1, p, failAt)
      c3 == StepBookDevices(c2, p, failAt)
      c4 == StepPageStats(c3, p, failAt)
      c5 == StepBulkInsert(c4, p, 1, time, failAt)
      c6 == StepBulkInsert(c5, p, 2, time, failAt)
      c7 == StepDetect(c6, p, 1, time, failAt)
      c8 == StepDetect(c7, p, 2, time, failAt)
  IN StepCommit(c8, failAt)

(* ------------------------------ inputs --------------------------------- *)
\* the sequences of (page, datetime) pairs of a batch
IdSeqs ==
  { <<>>,
    <<<<NumPage(10), "t">>>>,
    <<<<NumPage(10), "a|t">>>>,
    <<<<StrPage("10|a"), "t">>>>,
    <<<<NumPage(10), "t">>, <<StrPage("10|a"), "t">>>> }

Batch(ids, c) == [k \in 1..Len(ids) |-> KoReaderAnnotation(ids[k], c)]

\* the batches a caller hands to bulkInsert
Batches == {Batch(ids, c) : ids \in IdSeqs, c \in Contents}

\* the batch of the second book of a sync
OtherBatch(c) == Batch(<<<<NumPage(10), "t">>>>, c)

\* annotationsByBook with an entry for both books
FullMaps ==
  {[b \in {"b1", "b2"} |-> IF b = "b1" THEN Batch(ids, c) ELSE OtherBatch(c)]
     : ids \in IdSeqs, c \in Contents}

\* annotationsByBook: an entry for b1, for b2, for both or for neither
AnnotationMaps ==
  {<<>>}
    \cup {[b \in {"b1"} |-> x] : x \in Batches}
    \cup {[b \in {"b2"} |-> OtherBatch(c)] : c \in Contents}
    \cup FullMaps

\* The arguments of uploadStatisticData. From the plugin's /import request:
\* annotations is req.body.annotations || {}; the statistics name the device,
\* or there are none. From an uploaded statistics file: no annotationsByBook,
\* the unknown device.
Payloads ==
  {[books |-> bs, stats |-> <<PageStat(d, "b1")>>, hasAnn |-> TRUE, ann |-> m] :
     bs \in SUBSET Books, d \in Devices, m \in AnnotationMaps}
  \cup
  {[books |-> bs, stats |-> <<>>, hasAnn |-> TRUE,
    ann |-> [b \in {"b1"} |-> OtherBatch(c)]] : bs \in {{}, {"b1"}}, c \in Contents}
  \cup
  {[books |-> bs, stats |-> <<PageStat(UNKNOWN_DEVICE_ID, "b1")>>, hasAnn |-> FALSE,
    ann |-> <<>>] : bs \in {{"b1"}, {"b1", "b2"}}}

\* uploadStatisticData called with a fourth argument, syncAnnotationDeletions
\* = false. The signature has three parameters, so nothing reads it.
FlaggedPayloads ==
  {[books |-> {"b1"}, stats |-> <<PageStat(d, "b1")>>, hasAnn |-> TRUE,
    ann |-> [b \in {"b1"} |-> x], syncAnnotationDeletions |-> FALSE] :
     d \in Devices, x \in Batches}

\* the syncs a storage failure is injected into: both books, every step
FailingPayloads ==
  {[books |-> Books, stats |-> <<PageStat(d, "b1")>>, hasAnn |-> TRUE, ann |-> m] :
     d \in Devices, m \in FullMaps}

\* the identifiers a caller hands to markManyAsDeleted
Identifiers == {[page_ref |-> String(i[1]), datetime |-> i[2]] : i \in IdInputs}

\* what `last` keeps of a finished uploadStatisticData
SyncOutcome(name, p, r) ==
  IF r.ok
    THEN [name |-> name, ok |-> TRUE, p |-> p, ran |-> r.ran]
  ELSE [name |-> name, ok |-> FALSE, dirty |-> r.dirty]

(* ------------------------------ plugin router -------------------------- *)
REQUIRED_PLUGIN_VERSION == "0.1.0"

\* req.body.version: missing, another version, the required one
Versions == {NullStr, "0.0.9", REQUIRED_PLUGIN_VERSION}

\* variant: a gate that only rejects a missing version
rejectOldPluginVersion_MissingOnly(version) == ~Truthy(version)

\* rejectOldPluginVersion: TRUE when the request is answered with 400 and
\* next() is not called
rejectOldPluginVersion(version) == ~Truthy(version) \/ version # "0.1.0"

\* the bodies of the /import requests that are followed through the router:
\* complete ones, and ones without books or without stats
ImportBodies ==
  {[books |-> {"b1"}, stats |-> <<PageStat(d, "b1")>>, hasAnn |-> TRUE,
    ann |-> [b \in {"b1"} |-> OtherBatch(c)]] : d \in Devices, c \in Contents}
  \cup
  {[stats |-> <<PageStat(d, "b1")>>, hasAnn |-> TRUE,
    ann |-> [b \in {"b1"} |-> OtherBatch(c)]] : d \in Devices, c \in Contents}
  \cup
  {[books |-> {"b1"}, hasAnn |-> TRUE,
    ann |-> [b \in {"b1"} |-> OtherBatch(c)]] : c \in Contents}

(* ------------------------------ actions -------------------------------- *)
Init ==
  /\ db = EmptyTables
  /\ now = 1
  /\ last = [name |-> "none"]
  /\ nsync = 0
  /\ nrepo = 0
  /\ trxs = {}
  /\ dev = NoDevice

\* POST /device: DeviceRepository.insertIfNotExists
RegisterDevice(d) ==
  /\ d \notin db.device
  /\ db' = [db EXCEPT !.device = @ \cup {d}]
  /\ last' = [name |-> "RegisterDevice"]
  /\ UNCHANGED <<now, nsync, nrepo>>
  /\ UNCHANGED <<trxs, dev>>

\* uploadStatisticData with a fresh payload
Sync(p) ==
  /\ nsync < MaxSyncs
  /\ LET r == uploadStatisticData(db, p, now, 0)
     IN /\ db' = r.db
        /\ last' = SyncOutcome("Sync", p, r)
  /\ now' = now + 1
  /\ nsync' = nsync + 1
  /\ UNCHANGED nrepo
  /\ UNCHANGED <<trxs, dev>>

\* uploadStatisticData in which the storage fails at step failAt
SyncFails(p, failAt) ==
  /\ nsync < MaxSyncs
  /\ LET r == uploadStatisticData(db, p, now, failAt)
     IN /\ db' = r.db
        /\ last' = SyncOutcome("Sync", p, r)
  /\ now' = now + 1
  /\ nsync' = nsync + 1
  /\ UNCHANGED nrepo
  /\ UNCHANGED <<trxs, dev>>

\* POST /import: the version gate, then the handler, which answers 200, or
\* 500 when uploadStatisticData rejects
PostImport(version, p) ==
  /\ nsync < MaxSyncs
  /\ IF rejectOldPluginVersion(version)
       THEN /\ db' = db
            /\ last' = [name |-> "POST /import", version |-> version, p |-> p,
                        status |-> 400, dirty |-> FALSE]
     ELSE LET r == uploadStatisticData(db, p, now, 0)
          IN /\ db' = r.db
             /\ last' = [name |-> "POST /import", version |-> version, p |-> p,
                         status |-> IF r.ok THEN 200 ELSE 500, dirty |-> r.dirty]
  /\ now' = now + 1
  /\ nsync' = nsync + 1
  /\ UNCHANGED nrepo
  /\ UNCHANGED <<trxs, dev>>

\* POST /device: the version gate, then the handler
PostDevice(version, d) ==
  /\ d \notin db.device
  /\ IF rejectOldPluginVersion(version)
       THEN /\ db' = db
            /\ last' = [name |-> "POST /device", version |-> version, status |-> 400]
     ELSE /\ db' = [db EXCEPT !.device = @ \cup {d}]
          /\ last' = [name |-> "POST /device", version |-> version, status |-> 200]
  /\ UNCHANGED <<now, nsync, nrepo>>
  /\ UNCHANGED <<trxs, dev>>

\* the client sends the payload of the sync that just succeeded once more
Resend ==
  /\ last.name = "Sync"
  /\ last.ok
  /\ LET r == uploadStatisticData(db, last.p, now, 0)
     IN /\ db' = r.db
        /\ last' = SyncOutcome("Resend", last.p, r)
  /\ now' = now + 1
  /\ UNCHANGED <<nsync, nrepo>>
  /\ UNCHANGED <<trxs, dev>>

\* variant: bulkInsert that runs its inserts on db without a transaction, so
\* the inserts made before one throws stay
BulkInsert_NoTransaction(b, d, batch) ==
  /\ nrepo < MaxRepoOps
  /\ LET r == bulkInsert(db, b, d, batch, now)
     IN /\ db' = r.t
        /\ last' = IF r.ok
                     THEN [name |-> "BulkInsert", ok |-> TRUE, b |-> b, d |-> d,
                           batch |-> batch]
                   ELSE [name |-> "BulkInsert", ok |-> FALSE, empty |-> batch = <<>>,
                         dirty |-> r.t # db]
  /\ now' = now + 1
  /\ nrepo' = nrepo + 1
  /\ UNCHANGED nsync
  /\ UNCHANGED <<trxs, dev>>

\* AnnotationsRepository.bulkInsert without a transaction of the caller:
\* db.transaction(insertAnnotations) applies the batch or nothing.
\* dirty: inserts had been made when one threw.
BulkInsert(b, d, batch) ==
  /\ nrepo < MaxRepoOps
  /\ LET r == bulkInsert(db, b, d, batch, now)
     IN /\ db' = IF r.ok THEN r.t ELSE db
        /\ last' = IF r.ok
                     THEN [name |-> "BulkInsert", ok |-> TRUE, b |-> b, d |-> d,
                           batch |-> batch]
                   ELSE [name |-> "BulkInsert", ok |-> FALSE, empty |-> batch = <<>>,
                         dirty |-> r.t # db]
  /\ now' = now + 1
  /\ nrepo' = nrepo + 1
  /\ UNCHANGED nsync
  /\ UNCHANGED <<trxs, dev>>

MarkAsDeleted(id) ==
  /\ nrepo < MaxRepoOps
  /\ db' = markAsDeleted(db, id, now)
  /\ last' = [name |-> "MarkAsDeleted"]
  /\ now' = now + 1
  /\ nrepo' = nrepo + 1
  /\ UNCHANGED nsync
  /\ UNCHANGED <<trxs, dev>>

\* named: the identifiers name a stored annotation of (b, d) that is
\* soft-deleted already
MarkManyAsDeleted(b, d, identifiers) ==
  /\ nrepo < MaxRepoOps
  /\ db' = markManyAsDeleted(db, b, d, identifiers, now)
  /\ last' = [name |-> "MarkManyAsDeleted",
              named |-> \E r \in db.annotation :
                          /\ r.book_md5 = b /\ r.device_id = d /\ r.deleted_at # NullTime
                          /\ [page_ref |-> r.page_ref, datetime |-> r.datetime] \in identifiers]
  /\ now' = now + 1
  /\ nrepo' = nrepo + 1
  /\ UNCHANGED nsync
  /\ UNCHANGED <<trxs, dev>>

Restore(id) ==
  /\ nrepo < MaxRepoOps
  /\ db' = restore(db, id)
  /\ last' = [name |-> "Restore"]
  /\ now' = now + 1
  /\ nrepo' = nrepo + 1
  /\ UNCHANGED nsync
  /\ UNCHANGED <<trxs, dev>>

Delete(id) ==
  /\ nrepo < MaxRepoOps
  /\ db' = delete(db, id)
  /\ last' = [name |-> "Delete"]
  /\ now' = now + 1
  /\ nrepo' = nrepo + 1
  /\ UNCHANGED nsync
  /\ UNCHANGED <<trxs, dev>>

DeleteByBookMd5(md5) ==
  /\ nrepo < MaxRepoOps
  /\ db' = deleteByBookMd5(db, md5)
  /\ last' = [name |-> "DeleteByBookMd5"]
  /\ now' = now + 1
  /\ nrepo' = nrepo + 1
  /\ UNCHANGED <<nsync, trxs, dev>>

Ids == {r.id : r \in db.annotation}

Next ==
  \/ \E d \in Devices : RegisterDevice(d)
  \/ \E p \in Payloads \cup FlaggedPayloads : Sync(p)
  \/ \E p \in FailingPayloads, failAt \in FailPoints \ {0} : SyncFails(p, failAt)
  \/ \E v \in Versions, p \in ImportBodies : PostImport(v, p)
  \/ \E v \in Versions, d \in Devices : PostDevice(v, d)
  \/ Resend
  \/ \E b \in Books, d \in AllDevices, batch \in Batches : BulkInsert(b, d, batch)
  \/ \E id \in Ids : MarkAsDeleted(id)
  \/ \E b \in Books, d \in AllDevices, ids \in (SUBSET Identifiers) : MarkManyAsDeleted(b, d, ids)
  \/ \E id \in Ids : Restore(id)
  \/ \E id \in Ids : Delete(id)
  \/ \E md5 \in Books : DeleteByBookMd5(md5)

Spec == Init /\ [][Next]_vars

(* --------------------- convertFromKoReader on its own ------------------ *)
\* an optional string field: undefined, empty or set
OptionalStrings == {NullStr, "", "v"}

\* an optional position: absent or set
OptionalPositions == {NoPos, <<1, 2, 10>>}

\* KoReaderAnnotation with every combination of the optional fields the
\* type rule reads
ConvertInputs ==
  {[page |-> NumPage(10), datetime |-> "t", datetime_updated |-> NullStr,
    drawer |-> dr, color |-> co, text |-> tx, note |-> no,
    chapter |-> "c1", pageno |-> 1, total_pages |-> 10, pos0 |-> p0, pos1 |-> p1] :
     dr \in OptionalStrings, co \in OptionalStrings, tx \in OptionalStrings,
     no \in OptionalStrings, p0 \in OptionalPositions, p1 \in OptionalPositions}

InitConvert ==
  /\ db = EmptyTables
  /\ now = 1
  /\ nsync = 0
  /\ nrepo = 0
  /\ \E ka \in ConvertInputs : last = [name |-> "input", ka |-> ka]
  /\ trxs = {}
  /\ dev = NoDevice

\* convertFromKoReader applied to the annotation
Convert ==
  /\ last.name = "input"
  /\ last' = [name |-> "convertFromKoReader", ka |-> last.ka,
              row |-> convertFromKoReader("b1", "d1", last.ka)]
  /\ UNCHANGED <<db, now, nsync, nrepo>>
  /\ UNCHANGED <<trxs, dev>>

SpecConvert == InitConvert /\ [][Convert]_vars

(* ------------------------- getRecalculatedPage ------------------------- *)
\* A JavaScript number is an IEEE 754 double: [m, e] stands for m * 2^e, with
\* m a sequence of bits, most significant first, of which 53 are kept.
MantissaBits == 53

RECURSIVE NatToBits(_)
NatToBits(n) == IF n = 0 THEN <<>> ELSE NatToBits(n \div 2) \o <<n % 2>>

RECURSIVE BitsToNat(_)
BitsToNat(bits) ==
  IF bits = <<>> THEN 0
  ELSE 2 * BitsToNat(SubSeq(bits, 1, Len(bits) - 1)) + bits[Len(bits)]

\* bits + 1
RECURSIVE Increment(_)
Increment(bits) ==
  IF bits = <<>> THEN <<1>>
  ELSE IF bits[Len(bits)] = 0
    THEN SubSeq(bits, 1, Len(bits) - 1) \o <<1>>
  ELSE Increment(SubSeq(bits, 1, Len(bits) - 1)) \o <<0>>

\* 2^k
RECURSIVE Pow2(_)
Pow2(k) == IF k = 0 THEN 1 ELSE 2 * Pow2(k - 1)

\* the arithmetic on bit sequences works on this many bits at a time
LimbBits == 13

\* bits with zeros in front, n bits long
Pad(bits, n) ==
  [i \in 1..n |-> IF i <= n - Len(bits) THEN 0 ELSE bits[i - (n - Len(bits))]]

\* bits * c + carry, for a small integer c
RECURSIVE TimesSmall(_, _, _)
TimesSmall(bits, c, carry) ==
  IF Len(bits) <= LimbBits
    THEN NatToBits(BitsToNat(bits) * c + carry)
  ELSE LET v == BitsToNat(SubSeq(bits, Len(bits) - LimbBits + 1, Len(bits))) * c + carry
       IN TimesSmall(SubSeq(bits, 1, Len(bits) - LimbBits), c, v \div Pow2(LimbBits))
            \o Pad(NatToBits(v % Pow2(LimbBits)), LimbBits)

\* the next n bits of r / b for r < b, and the remainder left; n is a
\* multiple of LimbBits
RECURSIVE QuotientBits(_, _, _)
QuotientBits(r, b, n) ==
  IF n = 0 THEN [bits |-> <<>>, rem |-> r]
  ELSE LET rest == QuotientBits((r * Pow2(LimbBits)) % b, b, n - LimbBits)
       IN [bits |-> Pad(NatToBits((r * Pow2(LimbBits)) \div b), LimbBits) \o rest.bits,
           rem |-> rest.rem]

\* the smallest k with n * 2^k >= m
RECURSIVE ShiftUp(_, _)
ShiftUp(n, m) == IF n >= m THEN 0 ELSE 1 + ShiftUp(2 * n, m)

\* round to nearest, ties to even: up tells whether what was cut off is more
\* than half a unit of the last bit kept, tie whether it is exactly half
RoundNearestEven(bits, up, tie) ==
  IF up \/ (tie /\ bits[Len(bits)] = 1) THEN Increment(bits) ELSE bits

\* the double p / t for integers p, t >= 1
NumberDivide(p, t) ==
  LET k == ShiftUp(p, t)
      a == p * Pow2(k)
      j == ShiftUp(2 * t, a + 1) 
      b == t * Pow2(j)
      q == QuotientBits(a - b, b, MantissaBits - 1)
  IN [m |-> RoundNearestEven(<<1>> \o q.bits, 2 * q.rem > b, 2 * q.rem = b),
      e |-> j - k - (MantissaBits - 1)]

\* the double x * c for an integer c >= 1
NumberMultiply(x, c) ==
  LET product == TimesSmall(x.m, c, 0)
      cut == Len(product) - MantissaBits
  IN IF cut <= 0
       THEN [m |-> product, e |-> x.e]
     ELSE LET kept == SubSeq(product, 1, MantissaBits)
              tail == SubSeq(product, MantissaBits + 1, Len(product))
              low == SubSeq(tail, 2, Len(tail))
              sticky == \E i \in 1..Len(low) : low[i] = 1
          IN [m |-> RoundNearestEven(kept, tail[1] = 1 /\ sticky, tail[1] = 1 /\ ~sticky),
              e |-> x.e + cut]

\* Math.round(x): the nearest integer, ties toward +Infinity
MathRound(x) ==
  LET n == Len(x.m) + x.e
  IN IF x.e >= 0 THEN BitsToNat(x.m) * Pow2(x.e)
     ELSE IF n < 0 THEN 0
     ELSE BitsToNat(SubSeq(x.m, 1, n)) + x.m[n + 1]

\* !v of an optional number: undefined or 0
Falsy(v) == v = NullNum \/ v = 0

\* AnnotationCard.getRecalculatedPage
getRecalculatedPage(annotation, currentTotalPages) ==
  IF Falsy(annotation.pageno) \/ Falsy(annotation.total_pages)
    THEN annotation.pageno
  ELSE IF annotation.total_pages = currentTotalPages
    THEN annotation.pageno
  ELSE MathRound(NumberMultiply(NumberDivide(annotation.pageno, annotation.total_pages),
                                currentTotalPages))

\* the annotations a card is rendered for: pageno and total_pages undefined
\* or stored, pageno within the document
CardAnnotations ==
  {[pageno |-> p, total_pages |-> t] :
     <<p, t>> \in {x \in ({NullNum} \cup 0..MaxPageno) \X ({NullNum} \cup 0..MaxTotalPages) :
                    x[2] \in {NullNum, 0} \/ x[1] <= x[2]}}

InitCard ==
  /\ db = EmptyTables
  /\ now = 1
  /\ nsync = 0
  /\ nrepo = 0
  /\ \E a \in CardAnnotations, c \in 1..MaxCurrentTotal :
       last = [name |-> "AnnotationCard", annotation |-> a, currentTotalPages |-> c]
  /\ trxs = {}
  /\ dev = NoDevice

\* const displayPage = getRecalculatedPage()
Render ==
  /\ last.name = "AnnotationCard"
  /\ last' = [name |-> "getRecalculatedPage", annotation |-> last.annotation,
              currentTotalPages |-> last.currentTotalPages,
              displayPage |-> getRecalculatedPage(last.annotation, last.currentTotalPages)]
  /\ UNCHANGED <<db, now, nsync, nrepo>>
  /\ UNCHANGED <<trxs, dev>>

SpecCard == InitCard /\ [][Render]_vars

(* ---------------------- syncs of reading statistics -------------------- *)
\* the counters and reading statistics a request carries for a book:
\* total_read_time and total_read_pages missing, zero or set
Readings ==
  [last_open : {1, 2}, pages : {10, 20}, notes : {0, 1}, highlights : {0, 1},
   total_read_time : {NullNum, 0, 5, 7}, total_read_pages : {NullNum, 0, 3, 4}]

StatisticsPayloads ==
  {[books |-> {"b1"}, stats |-> <<PageStat(d, "b1")>>, hasAnn |-> TRUE, ann |-> <<>>,
    reading |-> r] : d \in Devices, r \in Readings}

NextStatistics == \E p \in StatisticsPayloads : Sync(p)

SpecStatistics == Init /\ [][NextStatistics]_vars

(* --------------------------- syncs of book data ------------------------ *)
\* the title, authors, series and language a request carries for its books
Metas ==
  [title : {"title-1", "title-2"}, authors : {"a", "b"}, series : {"s"},
   language : {"en", "de"}]

BookPayloads ==
  {[books |-> bs, stats |-> <<PageStat(d, "b1")>>, hasAnn |-> TRUE, ann |-> <<>>,
    meta |-> m] : bs \in SUBSET Books, d \in Devices, m \in Metas}

NextBooks == \E p \in BookPayloads : Sync(p)

SpecBooks == Init /\ [][NextBooks]_vars

(* --------------------------- syncs of page stats ----------------------- *)
\* the page stats a request carries: two pages, two start times, and two
\* values of the duration and of total_pages
PageStats ==
  [book_md5 : {"b1"}, device_id : Devices, page : {1, 2}, start_time : {1, 2},
   duration : {1, 2}, total_pages : {10, 20}]

PageStatPayloads ==
  {[books |-> {"b1"}, stats |-> st, hasAnn |-> TRUE, ann |-> <<>>] :
     st \in UNION {[1..n -> PageStats] : n \in 1..MaxStats}}

NextPageStats == \E p \in PageStatPayloads : Sync(p)

SpecPageStats == Init /\ [][NextPageStats]_vars

(* ----------------------- the plugin: sync on suspend -------------------- *)
\* a Lua field that is nil holds no value; one that is set holds one
Nil == {}
Or(field, default) == IF field = Nil THEN default ELSE CHOOSE v \in field : TRUE

\* DEFAULTS of the plugin settings
DEFAULT_server_url == ""
DEFAULT_sync_on_suspend == TRUE
DEFAULT_aggressive_suspend_sync == FALSE

\* the server URLs a user types into the settings dialog
TypedURLs == {"", "http://server", "http://server/"}

\* tostring(url or ""):gsub("/*$", "")
StripSlashes(url) == IF url = "http://server/" THEN "http://server" ELSE url

getServerURL(data) == Or(data.server_url, DEFAULT_server_url)
getSyncOnSuspendEnabled(data) == Or(data.sync_on_suspend, DEFAULT_sync_on_suspend)
getAggressiveSuspendEnabled(data) ==
  Or(data.aggressive_suspend_sync, DEFAULT_aggressive_suspend_sync)

\* what an event handler has done is forgotten when something else happens
Quiet(d) ==
  [d EXCEPT !.event = "none", !.mode = "none", !.statusRead = FALSE,
            !.uploads = 0, !.raised = FALSE, !.propagated = FALSE]

\* NetworkMgr:turnOnWifi() and the wait for a connection, which either
\* connects within the timeout or does not
turnOnWifi(d, connects) == [d EXCEPT !.wifi = TRUE, !.connected = connects]

\* NetworkMgr:turnOffWifi()
turnOffWifi(d) == [d EXCEPT !.wifi = FALSE, !.connected = FALSE]

\* variant: NetworkMgr:isWifiOn() alone
isWiFiConnected_WifiOn(d, checkRaises) ==
  IF checkRaises THEN TRUE ELSE d.wifi

\* pcall(NetworkMgr:isWifiOn() and NetworkMgr:isConnected()); when the status
\* cannot be read WiFi is assumed to be available
isWiFiConnected(d, checkRaises) ==
  IF checkRaises THEN TRUE ELSE d.wifi /\ d.connected

\* pcall(KoInsightUpload.sync(server_url, true)): the error, if any, is shown
\* and goes no further
CallSync(d, syncRaises) ==
  [d EXCEPT !.uploads = @ + 1, !.raised = syncRaises, !.propagated = FALSE]

performSyncOnSuspend(d, checkRaises, syncRaises) ==
  LET server_url == getServerURL(d.data)
  IN IF server_url = ""
       THEN d
     ELSE IF ~isWiFiConnected(d, checkRaises)
       THEN [d EXCEPT !.statusRead = TRUE]
     ELSE CallSync([d EXCEPT !.statusRead = ~checkRaises], syncRaises)

performAggressiveSyncOnSuspend(d, connects, syncRaises) ==
  LET server_url  == getServerURL(d.data)
      was_wifi_on == d.wifi
      online      == IF was_wifi_on THEN d ELSE turnOnWifi(d, connects)
      synced      == CallSync(online, syncRaises)
  IN IF server_url = ""
       THEN d
     ELSE IF syncRaises
       \* the error leaves the protected call before WiFi is turned off; the
       \* handler of the error turns WiFi off when it is on
       THEN IF synced.wifi THEN turnOffWifi(synced) ELSE synced
     ELSE IF was_wifi_on THEN synced ELSE turnOffWifi(synced)

\* the body that onSuspend, onPowerOff and onReboot share
SuspendHandler(d, event, checkRaises, connects, syncRaises) ==
  LET e == [Quiet(d) EXCEPT !.event = event]
  IN IF ~getSyncOnSuspendEnabled(d.data)
       THEN [e EXCEPT !.mode = "disabled"]
     ELSE IF getAggressiveSuspendEnabled(d.data)
       THEN performAggressiveSyncOnSuspend([e EXCEPT !.mode = "aggressive"],
                                           connects, syncRaises)
     ELSE performSyncOnSuspend([e EXCEPT !.mode = "normal"], checkRaises, syncRaises)

ServerIdle == UNCHANGED <<db, now, last, nsync, nrepo, trxs>>

InitSuspend ==
  /\ db = EmptyTables
  /\ now = 1
  /\ last = [name |-> "Init"]
  /\ nsync = 0
  /\ nrepo = 0
  /\ trxs = {}
  /\ dev = [kind |-> "suspend",
            data |-> [server_url |-> Nil, sync_on_suspend |-> Nil,
                      aggressive_suspend_sync |-> Nil],
            wifi |-> FALSE, connected |-> FALSE,
            event |-> "none", mode |-> "none", statusRead |-> FALSE, uploads |-> 0,
            raised |-> FALSE, propagated |-> FALSE]

toggleSyncOnSuspend ==
  /\ dev' = [Quiet(dev) EXCEPT
               !.data.sync_on_suspend = {~getSyncOnSuspendEnabled(dev.data)}]
  /\ ServerIdle

\* the menu item is enabled while sync on suspend is
toggleAggressiveSuspend ==
  /\ getSyncOnSuspendEnabled(dev.data)
  /\ dev' = [Quiet(dev) EXCEPT
               !.data.aggressive_suspend_sync = {~getAggressiveSuspendEnabled(dev.data)}]
  /\ ServerIdle

setServerURL(url) ==
  /\ dev' = [Quiet(dev) EXCEPT !.data.server_url = {StripSlashes(url)}]
  /\ ServerIdle

\* the user or the network changes the WiFi
Network(wifi, connected) ==
  /\ connected => wifi
  /\ dev' = [Quiet(dev) EXCEPT !.wifi = wifi, !.connected = connected]
  /\ ServerIdle

onSuspend ==
  /\ \E checkRaises, connects, syncRaises \in BOOLEAN :
       dev' = SuspendHandler(dev, "onSuspend", checkRaises, connects, syncRaises)
  /\ ServerIdle

onPowerOff ==
  /\ \E checkRaises, connects, syncRaises \in BOOLEAN :
       dev' = SuspendHandler(dev, "onPowerOff", checkRaises, connects, syncRaises)
  /\ ServerIdle

onReboot ==
  /\ \E checkRaises, connects, syncRaises \in BOOLEAN :
       dev' = SuspendHandler(dev, "onReboot", checkRaises, connects, syncRaises)
  /\ ServerIdle

NextSuspend ==
  \/ toggleSyncOnSuspend
  \/ toggleAggressiveSuspend
  \/ \E url \in TypedURLs : setServerURL(url)
  \/ \E wifi, connected \in BOOLEAN : Network(wifi, connected)
  \/ onSuspend
  \/ onPowerOff
  \/ onReboot

SpecSuspend == InitSuspend /\ [][NextSuspend]_vars

(* -------------------- the plugin: cleanAnnotations --------------------- *)
\* what a sidecar file holds for an annotation besides page and datetime: a
\* highlight, an edited highlight with a note, and a bookmark without text
\* and positions whose datetime_updated is the empty string
SidecarContents ==
  { [text |-> "x1", note |-> NullStr, drawer |-> "lighten", color |-> "yellow",
     chapter |-> "c1", pageno |-> 1, datetime_updated |-> NullStr,
     pos0 |-> <<1, 2, 10>>, pos1 |-> <<3, 4, 10>>, pboxes |-> "boxes"],
    [text |-> "x2", note |-> "n2", drawer |-> "lighten", color |-> "yellow",
     chapter |-> "c2", pageno |-> 2, datetime_updated |-> "u2",
     pos0 |-> <<1, 2, 10>>, pos1 |-> <<3, 4, 10>>, pboxes |-> "boxes"],
    [text |-> NullStr, note |-> NullStr, drawer |-> NullStr, color |-> NullStr,
     chapter |-> "c1", pageno |-> 3, datetime_updated |-> "",
     pos0 |-> NoPos, pos1 |-> NoPos, pboxes |-> NullStr] }

SidecarAnnotations ==
  {[c \in DOMAIN co \cup {"page", "datetime"} |->
      IF c = "page" THEN i[1] ELSE IF c = "datetime" THEN i[2] ELSE co[c]] :
     i \in IdInputs, co \in SidecarContents}

\* Lua `if v then`: every value but nil and false, the empty string included
LuaTruthy(annotation, o) ==
  IF o \in {"pos0", "pos1"} THEN annotation[o] # NoPos ELSE annotation[o] # NullStr

CleanedFields ==
  {"datetime", "drawer", "color", "text", "note", "chapter", "pageno", "page",
   "total_pages"}
OptionalFields == {"datetime_updated", "pos0", "pos1"}

cleaned_annotation(annotation, total_pages) ==
  [c \in CleanedFields \cup {o \in OptionalFields : LuaTruthy(annotation, o)} |->
     IF c = "total_pages" THEN total_pages ELSE annotation[c]]

\* variant: annotations without text are left out
RECURSIVE cleanAnnotations_TextOnly(_, _)
cleanAnnotations_TextOnly(annotations, total_pages) ==
  IF annotations = <<>> THEN <<>>
  ELSE LET rest == cleanAnnotations_TextOnly(Tail(annotations), total_pages)
       IN IF Head(annotations).text = NullStr THEN rest
          ELSE <<cleaned_annotation(Head(annotations), total_pages)>> \o rest

\* for _, annotation in ipairs(annotations) do ... table.insert(cleaned, ...)
RECURSIVE cleanAnnotations(_, _)
cleanAnnotations(annotations, total_pages) ==
  IF annotations = <<>> THEN <<>>
  ELSE <<cleaned_annotation(Head(annotations), total_pages)>>
         \o cleanAnnotations(Tail(annotations), total_pages)

InitClean ==
  /\ db = EmptyTables
  /\ now = 1
  /\ last = [name |-> "Init"]
  /\ nsync = 0
  /\ nrepo = 0
  /\ trxs = {}
  /\ \E annotations \in UNION {[1..n -> SidecarAnnotations] : n \in 0..MaxRead},
        total_pages \in {NullNum, 10} :
       dev = [kind |-> "reader", annotations |-> annotations,
              total_pages |-> total_pages, done |-> FALSE, cleaned |-> <<>>]

\* send_book_annotations and getAnnotationsByBook clean what was read
Clean ==
  /\ ~dev.done
  /\ dev' = [dev EXCEPT !.done = TRUE,
                        !.cleaned = cleanAnnotations(dev.annotations, dev.total_pages)]
  /\ ServerIdle

SpecClean == InitClean /\ [][Clean]_vars

(* ------------------- the plugin: sync and bulk sync -------------------- *)
API_UPLOAD_LOCATION == "/api/plugin/import"
API_DEVICE_LOCATION == "/api/plugin/device"

\* what the plugin does that can be seen from outside: a request sent, or a
\* progress event handed to the progress callback
Request(location, md5) ==
  [type |-> "request", to |-> location, md5 |-> md5, phase |-> "", current |-> 0,
   total |-> 0, success |-> 0, failed |-> 0]
Progress(phase, current, total, md5, success, failed) ==
  [type |-> "progress", to |-> "", md5 |-> md5, phase |-> phase, current |-> current,
   total |-> total, success |-> success, failed |-> failed]

\* callApi("POST", url, ...) in send_device_data; its answer changes what is
\* shown to the user and nothing else
send_device_data(server_url, silent, ok) == <<Request(API_DEVICE_LOCATION, "")>>

send_statistics_data(server_url, silent, ok) == <<Request(API_UPLOAD_LOCATION, "")>>

send_book_annotations(server_url, book_md5) == <<Request(API_UPLOAD_LOCATION, book_md5)>>

\* variant: the loop is left at the first upload that fails
RECURSIVE SyncEachBook_StopAtFailure(_, _, _, _, _, _)
SyncEachBook_StopAtFailure(server_url, books, oks, i, success_count, failed_count) ==
  IF i > Len(books)
    THEN <<Progress("complete", 0, Len(books), "", success_count, failed_count)>>
  ELSE <<Progress("syncing", i, Len(books), books[i], 0, 0)>>
         \o send_book_annotations(server_url, books[i])
         \o IF oks[i]
              THEN SyncEachBook_StopAtFailure(server_url, books, oks, i + 1,
                                              success_count + 1, failed_count)
            ELSE <<Progress("complete", 0, Len(books), "", success_count,
                            failed_count + 1)>>

\* the for loop of bulk_sync_all_books from book i on, with the counts so far
RECURSIVE SyncEachBook(_, _, _, _, _, _)
SyncEachBook(server_url, books, oks, i, success_count, failed_count) ==
  IF i > Len(books)
    THEN <<Progress("complete", 0, Len(books), "", success_count, failed_count)>>
  ELSE <<Progress("syncing", i, Len(books), books[i], 0, 0)>>
         \o send_book_annotations(server_url, books[i])
         \o SyncEachBook(server_url, books, oks, i + 1,
                         IF oks[i] THEN success_count + 1 ELSE success_count,
                         IF oks[i] THEN failed_count ELSE failed_count + 1)

bulk_sync_all_books(server_url, books, oks) ==
  IF Len(books) = 0
    THEN <<Progress("complete", 0, 0, "", 0, 0)>>
  ELSE SyncEachBook(server_url, books, oks, 1, 0, 0)

\* variant: the upload is made only when the device was registered
sync_RegisteredOnly(server_url, silent, registered, uploaded) ==
  IF server_url = NullStr \/ server_url = ""
    THEN <<>>
  ELSE send_device_data(server_url, silent, registered)
         \o IF registered THEN send_statistics_data(server_url, silent, uploaded)
            ELSE <<>>

\* KoInsightUpload.sync
sync(server_url, silent, registered, uploaded) ==
  IF server_url = NullStr \/ server_url = ""
    THEN <<>>
  ELSE send_device_data(server_url, silent, registered)
         \o send_statistics_data(server_url, silent, uploaded)

\* KoInsightUpload.bulkSync
bulkSync(server_url, registered, books, oks) ==
  IF server_url = NullStr \/ server_url = ""
    THEN <<>>
  ELSE send_device_data(server_url, TRUE, registered)
         \o bulk_sync_all_books(server_url, books, oks)

ServerURLs == {NullStr, "", "http://server"}

\* the books getAllBooksWithAnnotations collects, in the order of the
\* reading history
Collected == UNION {[1..n -> Books] : n \in 0..MaxCollected}

InitUpload ==
  /\ db = EmptyTables
  /\ now = 1
  /\ last = [name |-> "Init"]
  /\ nsync = 0
  /\ nrepo = 0
  /\ trxs = {}
  /\ dev = [kind |-> "upload", call |-> "none", server_url |-> "", silent |-> FALSE,
            registered |-> FALSE, books |-> <<>>, oks |-> <<>>, log |-> <<>>]

KoInsightUpload_sync ==
  /\ \E server_url \in ServerURLs, silent, registered, uploaded \in BOOLEAN :
       dev' = [kind |-> "upload", call |-> "sync", server_url |-> server_url,
               silent |-> silent, registered |-> registered, books |-> <<>>,
               oks |-> <<uploaded>>,
               log |-> sync(server_url, silent, registered, uploaded)]
  /\ ServerIdle

KoInsightUpload_bulkSync ==
  /\ \E server_url \in ServerURLs, registered \in BOOLEAN, books \in Collected :
       \E oks \in [1..Len(books) -> BOOLEAN] :
         dev' = [kind |-> "upload", call |-> "bulkSync", server_url |-> server_url,
                 silent |-> TRUE, registered |-> registered, books |-> books,
                 oks |-> oks,
                 log |-> bulkSync(server_url, registered, books, oks)]
  /\ ServerIdle

NextUpload ==
  \/ KoInsightUpload_sync
  \/ KoInsightUpload_bulkSync

SpecUpload == InitUpload /\ [][NextUpload]_vars

(* ------------------ the plugin: suspend connect timeout ----------------- *)
\* a Lua value: nil, a boolean, a number (NaN apart) or a string
LuaNil == [t |-> "nil", n |-> 0, s |-> ""]
LuaBoolean(b) == [t |-> "boolean", n |-> IF b THEN 1 ELSE 0, s |-> ""]
LuaNumber(n) == [t |-> "number", n |-> n, s |-> ""]
LuaNaN == [t |-> "nan", n |-> 0, s |-> ""]
LuaString(s) == [t |-> "string", n |-> 0, s |-> s]

\* the strings that a settings file or the timeout dialog holds
TimeoutStrings == {"", "abc", "nan", "2", "10", "45", "100"}

\* the number a string is read as, for those that are numerals
Numeral(s) ==
  CASE s = "2" -> 2
    [] s = "10" -> 10
    [] s = "45" -> 45
    [] s = "100" -> 100

\* tonumber(v)
tonumber(v) ==
  IF v.t \in {"number", "nan"} THEN v
  ELSE IF v.t = "string"
    THEN IF v.s \in {"2", "10", "45", "100"} THEN LuaNumber(Numeral(v.s))
         ELSE IF v.s = "nan" THEN LuaNaN
         ELSE LuaNil
  ELSE LuaNil

\* `t and t == t`: a number that is not NaN
IsActualNumber(t) == t.t = "number"

DEFAULT_suspend_connect_timeout_s == 10
TimeoutLo == 3
TimeoutHi == 60

\* variant: the upper bound is not applied
clamp_NoUpper(v, lo, hi) == IF v < lo THEN lo ELSE v

clamp(v, lo, hi) == IF v < lo THEN lo ELSE IF v > hi THEN hi ELSE v

getSuspendConnectTimeout(data) ==
  LET t == tonumber(data.suspend_connect_timeout_s)
  IN IF ~IsActualNumber(t)
       THEN DEFAULT_suspend_connect_timeout_s
     ELSE clamp(t.n, TimeoutLo, TimeoutHi)

\* the data after setSuspendConnectTimeout(sec)
setSuspendConnectTimeout(data, sec) ==
  LET t == tonumber(sec)
      n == IF ~IsActualNumber(t) THEN DEFAULT_suspend_connect_timeout_s ELSE t.n
  IN [data EXCEPT !.suspend_connect_timeout_s = LuaNumber(clamp(n, TimeoutLo, TimeoutHi))]

\* what a settings file may hold, and what may be handed to the setter
TimeoutValues ==
  {LuaNil, LuaNaN, LuaBoolean(TRUE)}
    \cup {LuaNumber(n) : n \in -1..MaxSeconds}
    \cup {LuaString(s) : s \in TimeoutStrings}

InitTimeout ==
  /\ db = EmptyTables
  /\ now = 1
  /\ last = [name |-> "Init"]
  /\ nsync = 0
  /\ nrepo = 0
  /\ trxs = {}
  /\ \E v \in TimeoutValues :
       dev = [kind |-> "settings", data |-> [suspend_connect_timeout_s |-> v],
              call |-> "new", result |-> 0]

GetSuspendConnectTimeout ==
  /\ dev' = [dev EXCEPT !.call = "getSuspendConnectTimeout",
                        !.result = getSuspendConnectTimeout(dev.data)]
  /\ ServerIdle

SetSuspendConnectTimeout(sec) ==
  /\ dev' = [dev EXCEPT !.call = "setSuspendConnectTimeout",
                        !.data = setSuspendConnectTimeout(dev.data, sec),
                        !.result = 0]
  /\ ServerIdle

NextTimeout ==
  \/ GetSuspendConnectTimeout
  \/ \E sec \in TimeoutValues : SetSuspendConnectTimeout(sec)

SpecTimeout == InitTimeout /\ [][NextTimeout]_vars

(* ------------------------ bulkInsert of any batch ---------------------- *)
\* batches of up to MaxBatchLen annotations, each with an identity and a
\* content of its own; an identity may occur more than once
AnyBatches ==
  UNION {[1..n -> {KoReaderAnnotation(i, c) : i \in IdInputs, c \in Contents}] :
           n \in 0..MaxBatchLen}

NextBatches ==
  \/ \E d \in Devices : RegisterDevice(d)
  \/ \E p \in ImportBodies : Sync(p)
  \/ \E d \in Devices, batch \in AnyBatches : BulkInsert("b1", d, batch)

SpecBatches == Init /\ [][NextBatches]_vars

(* ------------------------ batches that are refused --------------------- *)
\* an annotation that arrives without a datetime, which the table refuses
NoDatetime(c) == KoReaderAnnotation(<<NumPage(10), NullStr>>, c)

\* batches of one or two annotations, with the refused one first, last or
\* not at all
RefusedBatches ==
  UNION {{ <<KoReaderAnnotation(i, c)>>,
           <<NoDatetime(c)>>,
           <<KoReaderAnnotation(i, c), NoDatetime(c)>>,
           <<NoDatetime(c), KoReaderAnnotation(i, c)>> } : i \in IdInputs, c \in Contents}

RefusedPayloads ==
  {[books |-> {"b1"}, stats |-> <<PageStat(d, "b1")>>, hasAnn |-> TRUE,
    ann |-> [b \in {"b1"} |-> x]] : d \in Devices, x \in RefusedBatches}

NextRefused ==
  \/ \E d \in Devices : RegisterDevice(d)
  \/ \E p \in ImportBodies \cup RefusedPayloads : Sync(p)
  \/ \E p \in RefusedPayloads, failAt \in FailPoints \ {0} : SyncFails(p, failAt)
  \/ \E d \in Devices, batch \in RefusedBatches : BulkInsert("b1", d, batch)

SpecRefused == Init /\ [][NextRefused]_vars

(* -------------------------- concurrent requests ------------------------ *)
\* the bodies of the /import requests that are in flight together: all for
\* book b1 and device d1
ConcurrentPayloads ==
  {[books |-> {"b1"}, stats |-> <<PageStat(d, "b1")>>, hasAnn |-> TRUE,
    ann |-> [b \in {"b1"} |-> x]] : d \in Devices, x \in Batches}

\* the requests whose handler has not returned
InFlight(ts) == {x \in ts : x.state \in {"waiting", "active"}}

\* variant: every transaction gets a connection of its own at once
ConnectionFree_Pool(ts) == TRUE

\* db.transaction: the storage runs one transaction at a time
ConnectionFree(ts) == \A x \in ts : x.state # "active"

\* POST /import: the handler is entered and calls uploadStatisticData, whose
\* db.transaction waits for the storage
Receive(p) ==
  /\ Cardinality(trxs) < MaxConcurrent
  /\ trxs' = trxs \cup {[n |-> Cardinality(trxs) + 1, p |-> p,
                         with |-> {y.n : y \in InFlight(trxs)},
                         state |-> "waiting", at |-> 0, trx |-> EmptyTables]}
  /\ last' = [name |-> "Receive"]
  /\ UNCHANGED <<db, now, nsync, nrepo, dev>>

\* db.transaction(async (trx) => ...): the transaction begins on the tables
\* as committed
Begin(x) ==
  /\ x.state = "waiting"
  /\ ConnectionFree(trxs)
  /\ trxs' = (trxs \ {x}) \cup {[x EXCEPT !.state = "active", !.trx = db]}
  /\ last' = [name |-> "Begin"]
  /\ UNCHANGED <<db, now, nsync, nrepo, dev>>

\* the callback of db.transaction runs to trx.commit(), or rejects and the
\* transaction is rolled back
Commit(x) ==
  /\ x.state = "active"
  /\ LET r == uploadStatisticData(x.trx, x.p, now, 0)
     IN /\ db' = IF r.ok THEN r.db ELSE db
        /\ trxs' = (trxs \ {x}) \cup
                     {[x EXCEPT !.state = IF r.ok THEN "committed" ELSE "rolled back",
                                !.at = now, !.trx = EmptyTables]}
        /\ last' = [name |-> "Commit", ok |-> r.ok, n |-> x.n]
  /\ now' = now + 1
  /\ UNCHANGED <<nsync, nrepo, dev>>

NextConcurrent ==
  \/ \E d \in Devices : RegisterDevice(d)
  \/ \E p \in ConcurrentPayloads : Receive(p)
  \/ \E x \in trxs : Begin(x)
  \/ \E x \in trxs : Commit(x)

SpecConcurrent == Init /\ [][NextConcurrent]_vars

(* ------------------------------ properties ----------------------------- *)
\* the last call was uploadStatisticData
SyncCalls == {"Sync", "Resend"}

\* the row of tables t that has the id of row r
SameRow(t, r) == {x \in t.annotation : x.id = r.id}

\* the batch the payload p carries for the book and device of row r
BatchFor(p, r) ==
  IF p.hasAnn /\ r.device_id = SyncDeviceId(p.stats) /\ r.book_md5 \in DOMAIN p.ann
    THEN p.ann[r.book_md5]
  ELSE <<>>

\* batch has an annotation whose (String(page), datetime) is r's (page_ref, datetime)
Carries(batch, r) ==
  \E k \in 1..Len(batch) :
    String(batch[k].page) = r.page_ref /\ batch[k].datetime = r.datetime

\* C1: a row that bulkInsert stored takes the pageno and total_pages of the
\* payload that created it, and no later bulkInsert or sync changes either.
C1_PagenoTotalPagesWriteOnce ==
  [][last'.name \in SyncCalls \cup {"BulkInsert"} =>
       \A r2 \in db'.annotation :
         IF SameRow(db, r2) = {}
           THEN \E c \in Contents : r2.pageno = c.pageno /\ r2.total_pages = c.total_pages
         ELSE \A r \in SameRow(db, r2) :
                r2.pageno = r.pageno /\ r2.total_pages = r.total_pages]_vars

\* C2: the annotation table never holds two rows with the same
\* (book_md5, device_id, page_ref, datetime); a payload with an identity
\* that is stored revises the row.
C2_OneRowPerIdentity ==
  \A r1, r2 \in db.annotation :
    (/\ r1.book_md5 = r2.book_md5 /\ r1.device_id = r2.device_id
     /\ r1.page_ref = r2.page_ref /\ r1.datetime = r2.datetime) => r1 = r2

\* a row that was stored as a highlight and revised by a payload with a note
C2_Witness ==
  /\ last.name \in SyncCalls \cup {"BulkInsert"}
  /\ \E r \in db.annotation :
       r.annotation_type = "highlight" /\ r.text = "x2" /\ r.note = "n2"

\* C3: after a successful sync that carries a batch for book B of its books
\* list, an annotation of B and the device that was active before is
\* soft-deleted exactly when no annotation of the batch has its
\* (String(page), datetime) equal to the row's (page_ref, datetime).
C3_DeletedIffMissing ==
  [][(last'.name \in SyncCalls /\ last'.ok) =>
       \A r \in db.annotation :
         (/\ r.deleted_at = NullTime
          /\ last'.p.hasAnn
          /\ r.device_id = SyncDeviceId(last'.p.stats)
          /\ r.book_md5 \in DOMAIN last'.p.ann
          /\ r.book_md5 \in last'.p.books)
         => \A r2 \in SameRow(db', r) :
              (r2.deleted_at # NullTime) <=> ~Carries(last'.p.ann[r.book_md5], r)]_vars

\* C4: a sync whose annotations map has no entry for book B changes the
\* deleted_at of no annotation of B.
C4_NoEntryNoDeletion ==
  [][(last'.name \in SyncCalls /\ last'.ok) =>
       \A r \in db.annotation :
         r.book_md5 \notin DOMAIN last'.p.ann
         => \A r2 \in SameRow(db', r) : r2.deleted_at = r.deleted_at]_vars

\* C5: an uploadStatisticData call that fails leaves the committed tables
\* as they were before the call.
C5_FailedSyncChangesNothing ==
  [][(last'.name \in SyncCalls /\ ~last'.ok) => db' = db]_vars

\* a sync failed after its transaction had made changes
C5_Witness ==
  /\ last.name = "Sync"
  /\ ~last.ok
  /\ last.dirty

\* C6: a successful sync runs the upsert and the deletion detection for
\* every book that is a key of its annotations map.
C6_BothPassesForEveryKey ==
  (last.name \in SyncCalls /\ last.ok) =>
    \A b \in DOMAIN last.p.ann :
      <<b, "upsert">> \in last.ran /\ <<b, "detect">> \in last.ran

\* C7: a sync leaves every soft-deleted annotation soft-deleted, and one
\* whose identity is in the incoming batch keeps its deleted_at.
C7_SyncNeverUndeletes ==
  [][last'.name \in SyncCalls =>
       \A r \in db.annotation :
         r.deleted_at # NullTime =>
           /\ SameRow(db', r) # {}
           /\ \A r2 \in SameRow(db', r) :
                /\ r2.deleted_at # NullTime
                /\ (last'.ok /\ Carries(BatchFor(last'.p, r), r))
                     => r2.deleted_at = r.deleted_at]_vars

\* a sync has revised a soft-deleted annotation that its batch carries
C7_Witness ==
  /\ last.name \in SyncCalls
  /\ last.ok
  /\ \E r \in db.annotation :
       /\ r.deleted_at # NullTime
       /\ r.updated_at = now - 1
       /\ r.deleted_at < r.updated_at
       /\ Carries(BatchFor(last.p, r), r)

\* C8: once deleted_at is set, no call other than restore changes it while
\* the row exists.
C8_DeletedAtFrozen ==
  [][last'.name # "Restore" =>
       \A r \in db.annotation :
         r.deleted_at # NullTime =>
           \A r2 \in SameRow(db', r) : r2.deleted_at = r.deleted_at]_vars

\* C9: a sync whose batch omits a soft-deleted identity, and a
\* markManyAsDeleted call, leave the deleted_at of a soft-deleted row as it was.
C9_DeletedRowsNotRetouched ==
  [][\A r \in db.annotation :
       (/\ r.deleted_at # NullTime
        /\ \/ last'.name = "MarkManyAsDeleted"
           \/ /\ last'.name \in SyncCalls
              /\ last'.ok
              /\ ~Carries(BatchFor(last'.p, r), r))
       => /\ SameRow(db', r) # {}
          /\ \A r2 \in SameRow(db', r) : r2.deleted_at = r.deleted_at]_vars

\* markManyAsDeleted has named an annotation that was soft-deleted earlier
C9_Witness ==
  /\ last.name = "MarkManyAsDeleted"
  /\ last.named
  /\ \E r \in db.annotation : r.deleted_at # NullTime /\ r.deleted_at < now - 1

\* what two runs of a sync are compared on: every column of the annotation
\* rows but updated_at, and whether deleted_at is set
AnnotationRows(t) ==
  {[id |-> r.id, book_md5 |-> r.book_md5, device_id |-> r.device_id,
    page_ref |-> r.page_ref, datetime |-> r.datetime,
    annotation_type |-> r.annotation_type, text |-> r.text, note |-> r.note,
    drawer |-> r.drawer, color |-> r.color, chapter |-> r.chapter,
    pos0 |-> r.pos0, pos1 |-> r.pos1, datetime_updated |-> r.datetime_updated,
    pageno |-> r.pageno, total_pages |-> r.total_pages,
    deleted |-> r.deleted_at # NullTime] : r \in t.annotation}

\* C10: sending the payload of a successful sync again succeeds and leaves
\* the annotation rows as the first run left them.
C10_ResendIdempotent ==
  [][last'.name = "Resend" =>
       last'.ok /\ AnnotationRows(db') = AnnotationRows(db)]_vars

\* the payload was sent again after its first run had soft-deleted one
\* annotation, and the second run revised another
C10_Witness ==
  /\ last.name = "Resend"
  /\ last.ok
  /\ \E r \in db.annotation : r.deleted_at = now - 2
  /\ \E r \in db.annotation : r.deleted_at = NullTime /\ r.updated_at = now - 1

\* the batch the last call handed to bulkInsert for the book and device of row r
LastBatchFor(l, r) ==
  IF l.name = "BulkInsert"
    THEN IF l.ok /\ r.book_md5 = l.b /\ r.device_id = l.d THEN l.batch ELSE <<>>
  ELSE IF l.name \in SyncCalls /\ l.ok
    THEN BatchFor(l.p, r)
  ELSE <<>>

\* C11: after bulkInsert, a stored row whose identity the batch carries has
\* the text, note, chapter and datetime_updated of the batch's annotation.
C11_LastWriteWinsForContent ==
  [][\A r \in db'.annotation :
       LET batch == LastBatchFor(last', r)
       IN \A k \in 1..Len(batch) :
            (String(batch[k].page) = r.page_ref /\ batch[k].datetime = r.datetime)
            => /\ r.text = batch[k].text
               /\ r.note = batch[k].note
               /\ r.chapter = batch[k].chapter
               /\ r.datetime_updated = batch[k].datetime_updated]_vars

\* bulkInsert has revised a row that was stored with a note by a payload
\* without one
C11_Witness ==
  /\ last.name = "BulkInsert"
  /\ last.ok
  /\ \E r \in db.annotation :
       /\ Carries(LastBatchFor(last, r), r)
       /\ r.annotation_type = "note"
       /\ r.text = "x1"
       /\ r.note = NullStr
       /\ r.updated_at = now - 1

\* an optional string field counts as absent when it is undefined or empty
Absent(v) == v = NullStr \/ v = ""

\* C12: convertFromKoReader types an annotation as bookmark when drawer,
\* color, pos0 and pos1 are all absent; else as note when note and text are
\* both present; else as highlight.
C12_TypeByOrderedRule ==
  last.name = "convertFromKoReader" =>
    LET ka == last.ka
        unstyled == /\ Absent(ka.drawer) /\ Absent(ka.color)
                    /\ ka.pos0 = NoPos /\ ka.pos1 = NoPos
        annotated == ~Absent(ka.note) /\ ~Absent(ka.text)
    IN /\ last.row.annotation_type \in {"bookmark", "note", "highlight"}
       /\ unstyled => last.row.annotation_type = "bookmark"
       /\ (~unstyled /\ annotated) => last.row.annotation_type = "note"
       /\ (~unstyled /\ ~annotated) => last.row.annotation_type = "highlight"

\* a styled highlight with a note attached has been typed as a note
C12_Witness ==
  /\ last.name = "convertFromKoReader"
  /\ last.ka.drawer = "v"
  /\ last.ka.note = "v"
  /\ last.ka.text = "v"
  /\ last.row.annotation_type = "note"

\* C13: the display page is the stored pageno when pageno or total_pages
\* is missing or total_pages is the current total, and else
\* round(pageno * current_total / total_pages), halves rounded up; the
\* annotation is left as it was.
C13_DisplayPage ==
  [][last'.name = "getRecalculatedPage" =>
       LET a == last'.annotation
           c == last'.currentTotalPages
       IN /\ a = last.annotation
          /\ last'.displayPage =
               IF a.pageno \in {NullNum, 0} \/ a.total_pages \in {NullNum, 0}
                    \/ a.total_pages = c
                 THEN a.pageno
               ELSE (2 * a.pageno * c + a.total_pages) \div (2 * a.total_pages)]_vars

\* C14: for every book the per-type counts and the deleted count add up to
\* the number of annotation rows of the book.
C14_CountsAddUp ==
  \A md5 \in Books :
    getCountsByType(db, md5).highlight + getCountsByType(db, md5).note
      + getCountsByType(db, md5).bookmark + getDeletedCount(db, md5)
    = Cardinality({r \in db.annotation : r.book_md5 = md5})

\* a book with an active note, and a soft-deleted highlight that no
\* per-type count includes
C14_Witness ==
  /\ getCountsByType(db, "b1").note = 1
  /\ getCountsByType(db, "b1").highlight = 0
  /\ getDeletedCount(db, "b1") = 1
  /\ \E r \in db.annotation :
       r.book_md5 = "b1" /\ r.annotation_type = "highlight" /\ r.deleted_at # NullTime

\* C15: a sync called with syncAnnotationDeletions = false soft-deletes no
\* annotation.
C15_NoDeletionWhenSwitchedOff ==
  [][(/\ last'.name \in SyncCalls
      /\ last'.ok
      /\ "syncAnnotationDeletions" \in DOMAIN last'.p
      /\ ~last'.p.syncAnnotationDeletions)
     => \A r \in db.annotation :
          r.deleted_at = NullTime =>
            \A r2 \in SameRow(db', r) : r2.deleted_at = NullTime]_vars

\* the requests that went through the router
Routes == {"POST /import", "POST /device"}

\* C16: a request to /import or /device whose version is missing or is not
\* the required one is answered with 400 and the tables are left as they were.
C16_VersionGate ==
  [][(last'.name \in Routes /\ last'.version # REQUIRED_PLUGIN_VERSION)
     => (last'.status = 400 /\ db' = db)]_vars

\* an /import request with another version was rejected while annotations
\* were stored
C16_Witness ==
  /\ last.name = "POST /import"
  /\ last.version = "0.0.9"
  /\ last.status = 400
  /\ db.annotation # {}

\* C17: an /import request without books or without stats is answered with
\* a client error, before any write is attempted, and nothing is written.
C17_IncompleteBodyRejected ==
  [][(/\ last'.name = "POST /import"
      /\ last'.version = REQUIRED_PLUGIN_VERSION
      /\ ("books" \notin DOMAIN last'.p \/ "stats" \notin DOMAIN last'.p))
     => (last'.status = 400 /\ ~last'.dirty /\ db' = db)]_vars

\* C18: a sync whose book carries no or zero total_read_time /
\* total_read_pages leaves the stored total_read_time / total_read_pages
\* of the (book, device) row as it was, and last_open, pages, notes and
\* highlights of the row are those of the payload.
C18_ReadingStatisticsKept ==
  [][(last'.name = "Sync" /\ last'.ok /\ "reading" \in DOMAIN last'.p) =>
       \A bd \in db.book_device :
         (bd.book_md5 \in last'.p.books /\ bd.device_id = SyncDeviceId(last'.p.stats))
         => \E bd2 \in db'.book_device :
              /\ bd2.book_md5 = bd.book_md5
              /\ bd2.device_id = bd.device_id
              /\ last'.p.reading.total_read_time \in {NullNum, 0}
                   => bd2.total_read_time = bd.total_read_time
              /\ last'.p.reading.total_read_pages \in {NullNum, 0}
                   => bd2.total_read_pages = bd.total_read_pages
              /\ bd2.last_open = last'.p.reading.last_open
              /\ bd2.pages = last'.p.reading.pages
              /\ bd2.notes = last'.p.reading.notes
              /\ bd2.highlights = last'.p.reading.highlights]_vars

\* a sync without reading statistics has updated the counters of a row
\* that holds reading statistics of an earlier sync
C18_Witness ==
  /\ last.name = "Sync"
  /\ last.ok
  /\ nsync = 2
  /\ "reading" \in DOMAIN last.p
  /\ last.p.reading.total_read_time = NullNum
  /\ last.p.reading.total_read_pages = NullNum
  /\ last.p.reading.last_open = 2
  /\ \E bd \in db.book_device :
       /\ bd.total_read_time = 5 /\ bd.total_read_pages = 3
       /\ bd.last_open = 2

\* the orders a batch can be applied in
Orders(batch) ==
  {[k \in 1..Len(batch) |-> batch[f[k]]] :
     f \in {g \in [1..Len(batch) -> 1..Len(batch)] :
              \A x, y \in 1..Len(batch) : g[x] = g[y] => x = y}}

\* no two annotations of the batch have the same (String(page), datetime)
DistinctIdentities(batch) ==
  \A x, y \in 1..Len(batch) :
    (String(batch[x].page) = String(batch[y].page) /\ batch[x].datetime = batch[y].datetime)
    => x = y

\* the annotation rows apart from the ids the table has given them
RowsWithoutId(t) ==
  {[c \in DOMAIN r \ {"id"} |-> r[c]] : r \in t.annotation}

\* C19 as stated: bulkInsert of any permutation of a batch leaves the same
\* annotation rows as bulkInsert of the batch.
C19_AnyOrderSameRows ==
  [][(last'.name = "BulkInsert" /\ last'.ok) =>
       \A q \in Orders(last'.batch) :
         RowsWithoutId(bulkInsert(db, last'.b, last'.d, q, now).t) = RowsWithoutId(db')]_vars

\* C19 for batches that carry every identity once: bulkInsert of any
\* permutation of the batch leaves the same annotation rows, apart from
\* their ids.
C19_AnyOrderSameRowsDistinct ==
  [][(last'.name = "BulkInsert" /\ last'.ok /\ DistinctIdentities(last'.batch)) =>
       \A q \in Orders(last'.batch) :
         RowsWithoutId(bulkInsert(db, last'.b, last'.d, q, now).t) = RowsWithoutId(db')]_vars

\* bulkInsert has applied a batch of three identities with two contents,
\* revising a stored row and adding two
C19_Witness ==
  /\ last.name = "BulkInsert"
  /\ last.ok
  /\ Len(last.batch) = 3
  /\ DistinctIdentities(last.batch)
  /\ last.batch[1].text # last.batch[2].text
  /\ Cardinality(db.annotation) = 3
  /\ \E r \in db.annotation : r.id = 1 /\ r.updated_at = now - 1

\* the syncs that have committed
Committed == {x \in trxs : x.state = "committed"}

\* x was in flight together with another sync that has committed too
Overlapped(x) ==
  \E y \in Committed \ {x} : x.n \in y.with \/ y.n \in x.with

\* the rows stored for annotation ka of sync x
RowsOf(x, ka) ==
  {r \in db.annotation :
     /\ r.book_md5 = "b1"
     /\ r.device_id = SyncDeviceId(x.p.stats)
     /\ r.page_ref = String(ka.page)
     /\ r.datetime = ka.datetime}

C21_DetectionSeesUpserts ==
  [][(last'.name \in SyncCalls /\ last'.ok /\ last'.p.hasAnn) =>
       \A b \in DOMAIN last'.p.ann \cap last'.p.books :
         /\ \A r2 \in db'.annotation :
              (/\ r2.book_md5 = b
               /\ r2.device_id = SyncDeviceId(last'.p.stats)
               /\ SameRow(db, r2) = {})
              => r2.deleted_at = NullTime
         /\ \A r \in db.annotation :
              (/\ r.book_md5 = b
               /\ r.device_id = SyncDeviceId(last'.p.stats)
               /\ r.deleted_at = NullTime
               /\ ~Carries(last'.p.ann[b], r))
              => \A r2 \in SameRow(db', r) : r2.deleted_at # NullTime]_vars

\* C22: getByBookMd5 returns the rows of the book (of the device, when one
\* is given) that are not soft-deleted, or all of them when includeDeleted
\* is true, and the deleted flag of a returned annotation is true exactly
\* when the row's deleted_at is set.
C22_ReadsHideDeleted ==
  \A md5 \in Books, deviceId \in {NullStr} \cup AllDevices, includeDeleted \in BOOLEAN :
    LET res == getByBookMd5(db, md5, deviceId, includeDeleted)
    IN /\ {a.id : a \in res} =
            {r.id : r \in {x \in db.annotation :
                             /\ x.book_md5 = md5
                             /\ deviceId = NullStr \/ x.device_id = deviceId
                             /\ includeDeleted \/ x.deleted_at = NullTime}}
       /\ \A a \in res : \A r \in SameRow(db, a) :
            a.deleted <=> r.deleted_at # NullTime

\* a book with an active and a soft-deleted annotation of one device: the
\* default read returns one row, the read with includeDeleted two, one of
\* them flagged, and the read for another device none
C22_Witness ==
  /\ Cardinality(getByBookMd5(db, "b1", "d1", FALSE)) = 1
  /\ Cardinality(getByBookMd5(db, "b1", "d1", TRUE)) = 2
  /\ \E a \in getByBookMd5(db, "b1", NullStr, TRUE) : a.deleted
  /\ \E a \in getByBookMd5(db, "b1", NullStr, TRUE) : ~a.deleted
  /\ getByBookMd5(db, "b1", UNKNOWN_DEVICE_ID, TRUE) = {}

\* C23: bulkInsert with an empty batch returns without error and leaves
\* the annotation table as it was.
C23_EmptyBatchNoOp ==
  [][(/\ last'.name = "BulkInsert"
      /\ IF last'.ok THEN last'.batch = <<>> ELSE last'.empty)
     => last'.ok /\ db'.annotation = db.annotation]_vars

\* bulkInsert was called with an empty batch for a book that is not stored,
\* on a table that holds annotations
C23_Witness ==
  /\ last.name = "BulkInsert"
  /\ last.ok
  /\ last.batch = <<>>
  /\ last.b \notin {x.md5 : x \in db.book}
  /\ db.annotation # {}

\* the calls that remove annotation rows for good
HardDeletes == {"Delete", "DeleteByBookMd5"}

\* C24: no call other than delete(id) and deleteByBookMd5 removes an
\* annotation row: after a sync, failed or not, every row that was stored is
\* stored still, with the identity it had.
C24_OnlyHardDeleteRemovesRows ==
  [][last'.name \notin HardDeletes =>
       \A r \in db.annotation :
         \E r2 \in db'.annotation :
           /\ r2.id = r.id
           /\ r2.book_md5 = r.book_md5 /\ r2.device_id = r.device_id
           /\ r2.page_ref = r.page_ref /\ r2.datetime = r.datetime]_vars

\* a sync has soft-deleted an annotation that its batch does not carry, and
\* the row is stored still
C24_Witness ==
  /\ last.name \in SyncCalls
  /\ last.ok
  /\ \E r \in db.annotation :
       /\ r.deleted_at = now - 1
       /\ r.updated_at < now - 1
       /\ ~Carries(BatchFor(last.p, r), r)

\* C25: a sync leaves every annotation of a device other than the one it is
\* attributed to as it was, in every column.
C25_OtherDevicesUntouched ==
  [][last'.name \in SyncCalls =>
       \A r \in db.annotation :
         (last'.ok => r.device_id # SyncDeviceId(last'.p.stats))
         => r \in db'.annotation]_vars

\* a sync of device d1 has stored an annotation whose book, page_ref and
\* datetime are those of an active annotation of another device, with
\* another text
C25_Witness ==
  /\ last.name \in SyncCalls
  /\ last.ok
  /\ SyncDeviceId(last.p.stats) = "d1"
  /\ \E r1, r2 \in db.annotation :
       /\ r1.device_id = "d1"
       /\ r2.device_id # "d1"
       /\ r1.book_md5 = r2.book_md5
       /\ r1.page_ref = r2.page_ref
       /\ r1.datetime = r2.datetime
       /\ r1.updated_at = now - 1
       /\ r1.text # r2.text
       /\ r2.deleted_at = NullTime

\* the type the rule of convertFromKoReader gives the stored columns of row r
StoredType(r) ==
  AnnotationType([drawer |-> r.drawer, color |-> r.color, text |-> r.text,
                  note |-> r.note,
                  pos0 |-> IF r.pos0 # NullStr THEN JSONparse(r.pos0) ELSE NoPos,
                  pos1 |-> IF r.pos1 # NullStr THEN JSONparse(r.pos1) ELSE NoPos])

ActiveIdentities(t, b, d) ==
  {<<r.page_ref, r.datetime>> :
     r \in {x \in t.annotation :
              x.book_md5 = b /\ x.device_id = d /\ x.deleted_at = NullTime}}

\* the (String(page), datetime) pairs of a batch
BatchIdentities(batch) ==
  {<<String(batch[k].page), batch[k].datetime>> : k \in 1..Len(batch)}

Named(t, b, d, identifiers) ==
  {r \in t.annotation :
     /\ r.book_md5 = b /\ r.device_id = d /\ r.deleted_at = NullTime
     /\ [page_ref |-> r.page_ref, datetime |-> r.datetime] \in identifiers}

\* C28: markManyAsDeleted sets the deleted_at of the active annotations of
\* the book and device that the identifiers name, returns their number, and
\* leaves every other row and table as it was; with no identifiers it
\* returns 0 and changes nothing.
C28_MarkManyExactlyNamed ==
  \A b \in Books, d \in AllDevices, identifiers \in SUBSET Identifiers :
    LET t2 == markManyAsDeleted(db, b, d, identifiers, now)
        named == Named(db, b, d, identifiers)
    IN /\ \A r \in db.annotation :
            IF r \in named
              THEN [r EXCEPT !.deleted_at = now] \in t2.annotation
            ELSE r \in t2.annotation
       /\ Cardinality(t2.annotation) = Cardinality(db.annotation)
       /\ [t2 EXCEPT !.annotation = {}] = [db EXCEPT !.annotation = {}]
       /\ markManyAsDeletedCount(db, b, d, identifiers) = Cardinality(named)
       /\ identifiers = {} =>
            t2 = db /\ markManyAsDeletedCount(db, b, d, identifiers) = 0

\* device d1 has an active and a soft-deleted annotation of b1;
\* markManyAsDeleted of all identifiers for (b1, d1) marks the active one
C28_Witness ==
  /\ markManyAsDeletedCount(db, "b1", "d1", Identifiers) = 1
  /\ \E r \in db.annotation :
       r.book_md5 = "b1" /\ r.device_id = "d1" /\ r.deleted_at # NullTime
  /\ Cardinality(markManyAsDeleted(db, "b1", "d1", Identifiers, now).annotation
                   \ db.annotation) = 1

\* C29: a bulkInsert call of its own that throws leaves the tables as they
\* were, and a sync that fails, in bulkInsert or after it, leaves them as
\* they were too.
C29_BulkInsertAllOrNothing ==
  [][/\ (last'.name = "BulkInsert" /\ ~last'.ok) => db' = db
     /\ (last'.name = "Sync" /\ ~last'.ok /\ last'.dirty)
          => db'.annotation = db.annotation /\ db'.nextId = db.nextId]_vars

\* bulkInsert threw on the second annotation of its batch after it had
\* inserted the first
C29_Witness ==
  /\ last.name = "BulkInsert"
  /\ ~last.ok
  /\ last.dirty

\* C30: restore(id) of a stored annotation sets its deleted_at to null,
\* changes nothing else and returns 1; markAsDeleted and then restore of an
\* active annotation give back the tables as they were, so that the default
\* read returns the annotation and the counts are the ones before, while in
\* between it is not read and is counted as deleted.
C30_RestoreUndoesMarkAsDeleted ==
  \A r \in db.annotation :
    LET md5 == r.book_md5
        marked == markAsDeleted(db, r.id, now)
        back == restore(marked, r.id)
    IN /\ restore(db, r.id) =
            [db EXCEPT !.annotation = (@ \ {r}) \cup {[r EXCEPT !.deleted_at = NullTime]}]
       /\ restoreCount(db, r.id) = 1
       /\ r.deleted_at = NullTime =>
            /\ back = db
            /\ AnnotationOf(r) \in getByBookMd5(back, md5, NullStr, FALSE)
            /\ r.id \notin {a.id : a \in getByBookMd5(marked, md5, NullStr, FALSE)}
            /\ getCountsByType(back, md5) = getCountsByType(db, md5)
            /\ getDeletedCount(back, md5) = getDeletedCount(db, md5)
            /\ getDeletedCount(marked, md5) = getDeletedCount(db, md5) + 1

\* a book with an active annotation, which markAsDeleted and restore act on,
\* and a soft-deleted one, which restore makes active
C30_Witness ==
  /\ \E r \in db.annotation :
       /\ r.deleted_at = NullTime
       /\ markAsDeleted(db, r.id, now) # db
       /\ restore(markAsDeleted(db, r.id, now), r.id) = db
  /\ \E r \in db.annotation :
       /\ r.deleted_at # NullTime
       /\ getDeletedCount(restore(db, r.id), r.book_md5) = getDeletedCount(db, r.book_md5) - 1

\* C31: a sync leaves every stored book row as it was, and the book table
\* holds one row per md5.
C31_BooksInsertedOnce ==
  [][last'.name \in SyncCalls =>
       /\ \A bk \in db.book : bk \in db'.book
       /\ \A x, y \in db'.book : x.md5 = y.md5 => x = y]_vars

\* a sync has carried, for a stored book, another title, other authors and
\* another language than the stored ones
C31_Witness ==
  /\ last.name \in SyncCalls
  /\ last.ok
  /\ \E bk \in db.book :
       /\ bk.md5 \in last.p.books
       /\ bk.title # last.p.meta.title
       /\ bk.authors # last.p.meta.authors
       /\ bk.language # last.p.meta.language

\* two page stats have the same (device_id, book_md5, page, start_time)
SameStat(x, y) ==
  /\ x.device_id = y.device_id /\ x.book_md5 = y.book_md5
  /\ x.page = y.page /\ x.start_time = y.start_time

\* the positions of the stats of a request that have the key of row r
Arrivals(stats, r) == {k \in 1..Len(stats) : SameStat(stats[k], r)}

\* C32: the page_stat table holds one row per (device_id, book_md5, page,
\* start_time); after a sync a stored row whose key no stat of the request
\* has is as it was, and one whose key arrives has the duration and
\* total_pages of the last stat that has it and is the same row otherwise.
C32_OnePageStatPerKey ==
  [][(last'.name \in SyncCalls /\ last'.ok) =>
       /\ \A x, y \in db'.page_stat : SameStat(x, y) => x = y
       /\ \A r \in db.page_stat :
            LET ks == Arrivals(last'.p.stats, r)
            IN IF ks = {}
                 THEN r \in db'.page_stat
               ELSE LET k == CHOOSE i \in ks : \A j \in ks : j <= i
                    IN [r EXCEPT !.duration = last'.p.stats[k].duration,
                                 !.total_pages = last'.p.stats[k].total_pages]
                         \in db'.page_stat]_vars

\* a sync has carried, for a stored key, another duration and another
\* total_pages, and a stat with a new key besides
C32_Witness ==
  /\ last.name \in SyncCalls
  /\ last.ok
  /\ Len(last.p.stats) = 2
  /\ Cardinality(db.page_stat) = 2
  /\ now = 3
  /\ \E r \in db.page_stat :
       /\ SameStat(r, last.p.stats[1])
       /\ r.duration = 2 /\ r.total_pages = 20
  /\ \E r \in db.page_stat : ~SameStat(r, last.p.stats[1])

SuspendEvents == {"onSuspend", "onPowerOff", "onReboot"}

\* C33: an aggressive sync on suspend leaves WiFi on if and only if it was on
\* before, whether the sync succeeds, the connection wait times out or the
\* sync raises an error.
C33_AggressiveSyncRestoresWifi ==
  [][(dev'.event \in SuspendEvents /\ dev'.mode = "aggressive") =>
       dev'.wifi = dev.wifi]_vars

\* C34: a suspend, power-off or reboot attempts no upload while sync on
\* suspend is disabled or the server URL is nil or empty, nor, in the
\* non-aggressive mode, while WiFi is not on and connected; an error of the
\* upload does not leave the event handler.
C34_NoUploadWhenNotReady ==
  [][dev'.event \in SuspendEvents =>
       /\ (\/ ~getSyncOnSuspendEnabled(dev.data)
           \/ dev.data.server_url \in {Nil, {""}}
           \/ /\ ~getAggressiveSuspendEnabled(dev.data)
              /\ ~(dev.wifi /\ dev.connected)) => dev'.uploads = 0
       /\ ~dev'.propagated]_vars

\* C34 as the code has it: in the non-aggressive mode the upload is skipped
\* when the WiFi status was read and WiFi is not on and connected; when the
\* status cannot be read WiFi is assumed to be available and the upload is
\* attempted.
C34_NoUploadWhenKnownNotReady ==
  [][dev'.event \in SuspendEvents =>
       /\ (\/ ~getSyncOnSuspendEnabled(dev.data)
           \/ dev.data.server_url \in {Nil, {""}}) => dev'.uploads = 0
       /\ (/\ ~getAggressiveSuspendEnabled(dev.data)
           /\ ~(dev.wifi /\ dev.connected)) =>
             \/ dev'.uploads = 0
             \/ dev'.uploads = 1 /\ ~dev'.statusRead
       /\ (dev'.mode = "normal" /\ dev'.statusRead /\ dev'.uploads = 0) =>
             ~(dev.wifi /\ dev.connected)
       /\ ~dev'.propagated]_vars

\* a suspend in the non-aggressive mode, with a server URL set, has read the
\* WiFi status, found WiFi on but not connected, and attempted no upload
C34_Witness ==
  /\ dev.kind = "suspend"
  /\ dev.event \in SuspendEvents
  /\ dev.mode = "normal"
  /\ getServerURL(dev.data) # ""
  /\ dev.statusRead
  /\ dev.wifi /\ ~dev.connected
  /\ dev.uploads = 0

\* C37: cleanAnnotations returns one record per annotation read, in the
\* order read and with its page and datetime, so the batch carries the
\* identity of every annotation read.
C37_CleanKeepsEveryAnnotation ==
  (dev.kind = "reader" /\ dev.done) =>
     /\ Len(dev.cleaned) = Len(dev.annotations)
     /\ \A k \in 1..Len(dev.annotations) :
          /\ k \in DOMAIN dev.cleaned
          /\ dev.cleaned[k].page = dev.annotations[k].page
          /\ dev.cleaned[k].datetime = dev.annotations[k].datetime

\* two annotations were read, a bookmark without text first, and cleaned
C37_Witness ==
  /\ dev.kind = "reader"
  /\ dev.done
  /\ Len(dev.annotations) = 2
  /\ dev.annotations[1].text = NullStr
  /\ dev.annotations[2].text # NullStr
  /\ dev.annotations[1].page # dev.annotations[2].page
  /\ Len(dev.cleaned) = 2

\* the positions in the log of the uploads and of the progress events
UploadsAt(log) ==
  {k \in 1..Len(log) : log[k].type = "request" /\ log[k].to = API_UPLOAD_LOCATION}
EventsAt(log, phase) ==
  {k \in 1..Len(log) : log[k].type = "progress" /\ log[k].phase = phase}
RegistrationsAt(log) ==
  {k \in 1..Len(log) : log[k].type = "request" /\ log[k].to = API_DEVICE_LOCATION}

\* the position of the i-th upload
NthUpload(log, i) ==
  CHOOSE k \in UploadsAt(log) : Cardinality({j \in UploadsAt(log) : j <= k}) = i

\* C35: a bulk sync uploads every collected book once and in order, reports
\* 'syncing' with current = i just before the i-th upload, and ends with the
\* one 'complete' event, whose success and failed add up to the total; the
\* uploads after a failed one are made.
C35_BulkSyncUploadsEveryBook ==
  (dev.kind = "upload" /\ dev.call = "bulkSync"
     /\ dev.server_url \notin {NullStr, ""}) =>
    LET log == dev.log
        n   == Len(dev.books)
    IN /\ Cardinality(UploadsAt(log)) = n
       /\ \A i \in 1..n :
            LET k == NthUpload(log, i)
            IN /\ log[k].md5 = dev.books[i]
               /\ k > 1
               /\ log[k - 1].type = "progress"
               /\ log[k - 1].phase = "syncing"
               /\ log[k - 1].current = i
       /\ Cardinality(EventsAt(log, "syncing")) = n
       /\ EventsAt(log, "complete") = {Len(log)}
       /\ log[Len(log)].total = n
       /\ log[Len(log)].success + log[Len(log)].failed = n
       /\ log[Len(log)].failed = Cardinality({i \in 1..n : ~dev.oks[i]})

\* a bulk sync of three books whose first upload failed and whose last
\* succeeded
C35_Witness ==
  /\ dev.kind = "upload"
  /\ dev.call = "bulkSync"
  /\ Len(dev.books) = 3
  /\ ~dev.oks[1]
  /\ dev.oks[3]
  /\ Cardinality(UploadsAt(dev.log)) = 3

\* C36: sync and bulkSync send nothing when server_url is nil or empty;
\* otherwise the first request registers the device, the uploads follow it,
\* and they are made whether or not the registration succeeded.
C36_RegistrationFirstUploadAnyway ==
  (dev.kind = "upload" /\ dev.call # "none") =>
    IF dev.server_url \in {NullStr, ""}
      THEN dev.log = <<>>
    ELSE /\ RegistrationsAt(dev.log) = {1}
         /\ \A k \in UploadsAt(dev.log) : k > 1
         /\ Cardinality(UploadsAt(dev.log)) =
              IF dev.call = "sync" THEN 1 ELSE Len(dev.books)

\* a sync whose registration failed and whose upload was made
C36_Witness ==
  /\ dev.kind = "upload"
  /\ dev.call = "sync"
  /\ ~dev.registered
  /\ UploadsAt(dev.log) = {2}

\* C38: for an annotation with 1 <= pageno <= total_pages and a current
\* total of at least one page, getRecalculatedPage gives a page of the
\* current document, one of 1..currentTotalPages.
C38_DisplayPageWithinDocument ==
  (/\ last.name = "getRecalculatedPage"
   /\ 1 <= last.annotation.pageno
   /\ last.annotation.pageno <= last.annotation.total_pages
   /\ 1 <= last.currentTotalPages) =>
     last.displayPage \in 1..last.currentTotalPages

\* the stored timeout is a number, or a string that reads as one
StoredNumber(data) ==
  LET v == data.suspend_connect_timeout_s
  IN \/ v.t = "number"
     \/ v.t = "string" /\ v.s \in {"2", "10", "45", "100"}

StoredSeconds(data) ==
  LET v == data.suspend_connect_timeout_s
  IN IF v.t = "number" THEN v.n ELSE Numeral(v.s)

\* C39: getSuspendConnectTimeout returns a value in [3, 60]: the stored
\* number if it is in the range, the nearer bound if it is not, and 10 when
\* nothing or no number is stored; setSuspendConnectTimeout stores a number
\* in [3, 60].
C39_TimeoutWithinBounds ==
  dev.kind = "settings" =>
    /\ getSuspendConnectTimeout(dev.data) \in 3..60
    /\ dev.call = "getSuspendConnectTimeout" =>
         dev.result = getSuspendConnectTimeout(dev.data)
    /\ IF StoredNumber(dev.data)
         THEN LET n == StoredSeconds(dev.data)
              IN /\ n < 3 => getSuspendConnectTimeout(dev.data) = 3
                 /\ n > 60 => getSuspendConnectTimeout(dev.data) = 60
                 /\ n \in 3..60 => getSuspendConnectTimeout(dev.data) = n
       ELSE getSuspendConnectTimeout(dev.data) = 10
    /\ dev.call = "setSuspendConnectTimeout" =>
         /\ dev.data.suspend_connect_timeout_s.t = "number"
         /\ dev.data.suspend_connect_timeout_s.n \in 3..60

\* a stored timeout above the range was read as 60
C39_Witness ==
  /\ dev.kind = "settings"
  /\ dev.call = "getSuspendConnectTimeout"
  /\ dev.data.suspend_connect_timeout_s = LuaString("100")
  /\ dev.result = 60

====
